---- MODULE Spec2Model ----
(***************************************************************************)
(* RTP statistics of livekit-server: RTPStatsReceiver and RTPStatsSender   *)
(* (pkg/sfu/buffer).                                                       *)
(*                                                                         *)
(* Number representation.  TLC's integers are 32 bit wide, so              *)
(*   - a uint64 is held as the int64 with the same bits (2^64 - 1 is -1):  *)
(*     + and - are the integer ones, int64(x) is x, and an unsigned        *)
(*     comparison is ULt/ULe below;                                        *)
(*   - wall-clock times are in milliseconds (the code holds nanoseconds);  *)
(*   - RTP timestamps are in units of 128 ticks, so that the 2^32 ticks of *)
(*     a timestamp cycle are 2^25 units; the clock rate is 48000 Hz, which *)
(*     is 3 units every 8 ms;                                              *)
(*   - propagation delays of sender reports are in microseconds, and the   *)
(*     factors 0.9, 0.1 and 0.5 of their adaptation are tenths.            *)
(* Sequence numbers, the history bitmap and the packet metadata ring keep  *)
(* their real widths and sizes.                                            *)
(*                                                                         *)
(* The wall clock read by a call (time.Now()) is the arrival time of its   *)
(* packet.  The counters that only pace the log messages (largeJumpCount,  *)
(* largeJumpNegativeCount, timeReversedCount, clockSkewCount,              *)
(* metadataCacheOverflowCount, outOfOrderSenderReportCount) are left out,  *)
(* as is the logging itself.  The counts of NACKs, PLIs and FIRs, which no  *)
(* call modelled here changes, are left out of the sender and its          *)
(* snapshots.                                                              *)
(*                                                                         *)
(* Spec runs one stats object, a receiver or a sender, through its calls:  *)
(* free calls, a script of packets, or calls together with RTCP reports    *)
(* (for a receiver a script of sender reports; for a sender two sender     *)
(* snapshots and a first packet, then packets, receiver reports and reads  *)
(* of the snapshots).                                                      *)
(* SpecFractionLost applies the fraction lost of a reception report, as    *)
(* the function it is, to the counts of an interval.                       *)
(* SpecSeed runs RTPStatsSender.Seed, statement by statement, on a second   *)
(* sender while a thread calls operations of the sender it copies.         *)
(* SpecDispatch calls the operations of AgentDispatchService (pkg/service) *)
(* with any context and request.                                           *)
(***************************************************************************)
EXTENDS Integers, Sequences, FiniteSets, Bags, TLC

\* ------------------------------------------------------------------------
\* Bounds of the model

\* the number of calls made on the stats object in the free-input runs
MaxCalls == 3

\* the number of snapshots of each kind the owner asks for, those of the
\* prelude of a sender with RTCP reports apart
MaxSnapshots == 1

\* the number of calls a run with RTCP reports is free to make
MaxReportCalls == 4

\* the most packets expected in an interval given to the fraction lost
MaxExpected == 10

\* ------------------------------------------------------------------------
\* Program constants

cHistorySize == 8192
cSnInfoSize == 4096
cGapHistogramNumBins == 101
ClockRate == 48000

SnRange == 2^16
\* one cycle of the 32 bit RTP timestamp, in units of 128 ticks
TsRange == 2^25

\* unsigned comparison of two uint64 held as int64
ULt(a, b) == IF (a < 0) = (b < 0) THEN a < b ELSE b < 0
ULe(a, b) == a = b \/ ULt(a, b)

\* a duration in milliseconds as RTP time (units of 128 ticks):
\* nanoseconds * clockRate / 1e9, truncated towards zero as in Go
ToRTP(ms) == IF ms >= 0 THEN (ms * (ClockRate \div 16000)) \div 8
                        ELSE -(((-ms) * (ClockRate \div 16000)) \div 8)

\* ------------------------------------------------------------------------
\* utils.WrapAround (IsRestartAllowed: false)

WrapAroundNew == [initialized |-> FALSE, start |-> 0, highest |-> 0, cycles |-> 0]

GetExtendedStart(w) == w.start
GetExtendedHighest(w) == w.cycles + w.highest
GetHighest(w) == w.highest

WrapAroundUnhandled(w) ==
    [w |-> w, res |-> [IsUnhandled |-> TRUE, PreExtendedHighest |-> 0, ExtendedVal |-> 0]]

WrapAroundUpdate(w, val, range) ==
    IF ~w.initialized
    THEN [w |-> [initialized |-> TRUE, start |-> val, highest |-> val, cycles |-> 0],
          res |-> [IsUnhandled |-> FALSE, PreExtendedHighest |-> val - 1, ExtendedVal |-> val]]
    ELSE LET gap == (val - w.highest) % range IN
         IF gap = 0 \/ gap > range \div 2
         THEN \* duplicate or out-of-order: the extender itself is left alone
              LET totalNum == GetExtendedHighest(w) - GetExtendedStart(w) + 1
                  cycles == IF val > w.highest THEN w.cycles - range ELSE w.cycles
              IN  IF totalNum <= range \div 2 /\ (val - w.start) % range > range \div 2
                  THEN \* before the start: would be a restart, which is not allowed
                       WrapAroundUnhandled(w)
                  ELSE [w |-> w,
                        res |-> [IsUnhandled |-> FALSE,
                                 PreExtendedHighest |-> GetExtendedHighest(w),
                                 ExtendedVal |-> cycles + val]]
         ELSE \* in-order
              LET cycles == IF val < w.highest THEN w.cycles + range ELSE w.cycles
              IN  [w |-> [w EXCEPT !.highest = val, !.cycles = cycles],
                   res |-> [IsUnhandled |-> FALSE,
                            PreExtendedHighest |-> GetExtendedHighest(w),
                            ExtendedVal |-> cycles + val]]

WrapAroundRollover(w, val, numCycles, range) ==
    IF numCycles < 0 \/ ~w.initialized
    THEN WrapAroundUpdate(w, val, range)
    ELSE LET cycles == w.cycles + numCycles * range IN
         IF cycles + val < GetExtendedHighest(w)
         THEN \* the forced rollover does not reach the highest: impossible value
              WrapAroundUnhandled(w)
         ELSE [w |-> [w EXCEPT !.highest = val, !.cycles = cycles],
               res |-> [IsUnhandled |-> FALSE,
                        PreExtendedHighest |-> GetExtendedHighest(w),
                        ExtendedVal |-> cycles + val]]

WrapAroundUndoUpdate(w, res, range) ==
    IF ~w.initialized \/ res.IsUnhandled
    THEN w
    ELSE [w EXCEPT !.highest = res.PreExtendedHighest % range,
                   !.cycles = res.PreExtendedHighest - (res.PreExtendedHighest % range)]

\* ------------------------------------------------------------------------
\* protoutils.Bitmap of cHistorySize bits, held as the set of the slots set

BitmapSet(h, val) == h \cup {val % cHistorySize}
BitmapIsSet(h, val) == (val % cHistorySize) \in h
BitmapClearRange(h, min, max) ==
    IF ULt(max, min) THEN h
    ELSE IF max < 0 \/ min < 0 \/ max - min >= cHistorySize - 1 THEN {}
    ELSE {b \in h : (b - min) % cHistorySize > max - min}

\* x & 0xFFFF_FFFF_0000_0000, the 2^32 cycles of x: x is below 2^31 in every run
Cycles32(x) == ((x \div 2^16) \div 2^16) * 2^16 * 2^16

\* a 32 bit value wrapped forward past 2^32:
\* (new - old) < (1 << 31) in uint32 arithmetic, and new < old
Wrapped32(new, old) == new < old /\ (old - new - 1) \div 2^16 >= 2^15

\* uint32(x)
U32(x) == IF x >= 0 THEN x - Cycles32(x) ELSE x + 2^16 * 2^16

\* ------------------------------------------------------------------------
\* rtpStatsBase: the state shared by receiver and sender

\* a snapshot: its anchor and the baselines of the counters read from it
initSnapshot(startTime, extStartSN) ==
    [isValid |-> TRUE, startTime |-> startTime, extStartSN |-> extStartSN,
     packetsLost |-> 0, maxRtt |-> 0, maxJitter |-> 0]

InvalidSnapshot ==
    [isValid |-> FALSE, startTime |-> 0, extStartSN |-> 0,
     packetsLost |-> 0, maxRtt |-> 0, maxJitter |-> 0]

\* a snapshot of the current state: the counters are the current ones
getSnapshot(b, startTime, extStartSN) ==
    [initSnapshot(startTime, extStartSN) EXCEPT !.packetsLost = b.packetsLost,
                                                !.maxRtt = b.rtt,
                                                !.maxJitter = b.jitter]

\* the slot of a snapshot id read and replaced by a snapshot of the current
\* state, anchored one past the highest sequence number: the object after the
\* call and the two snapshots (<<>>: nil)
getAndResetSnapshot(b, idx, extStartSN, extHighestSN, now) ==
    IF ~b.initialized THEN [b |-> b, then |-> <<>>, now |-> <<>>]
    ELSE LET then == IF b.snapshots[idx].isValid THEN b.snapshots[idx]
                     ELSE initSnapshot(b.startTime, extStartSN)
             snap == getSnapshot(b, now, extHighestSN + 1)
         IN  [b |-> [b EXCEPT !.snapshots[idx] = snap], then |-> then, now |-> snap]

BaseFields ==
    [initialized |-> FALSE, startTime |-> 0, endTime |-> 0,
     firstTime |-> 0, highestTime |-> 0,
     packetsLost |-> 0, packetsOutOfOrder |-> 0,
     packetsDuplicate |-> 0, bytesDuplicate |-> 0, headerBytesDuplicate |-> 0,
     packetsPadding |-> 0, bytesPadding |-> 0, headerBytesPadding |-> 0,
     bytes |-> 0, headerBytes |-> 0, frames |-> 0,
     jitter |-> 0, maxJitter |-> 0, lastTransit |-> 0, lastJitterExtTimestamp |-> 0,
     gapHistogram |-> EmptyBag,
     rtt |-> 0, maxRtt |-> 0,
     srFirst |-> <<>>, srNewest |-> <<>>,
     snapshots |-> <<>>]

\* the bin of the gap histogram a gap is counted in (0: none)
gapHistogramBin(gap) ==
    IF gap < 2 THEN 0
    ELSE IF gap - 1 > cGapHistogramNumBins THEN cGapHistogramNumBins
    ELSE gap - 1

updateGapHistogram(b, gap) ==
    IF gapHistogramBin(gap) = 0 THEN b
    ELSE [b EXCEPT !.gapHistogram = @ (+) SetToBag({gapHistogramBin(gap)})]

\* RFC 3550 inter-arrival jitter, in whole units (the code holds a float64)
updateJitter(b, ets, packetTime) ==
    IF b.lastJitterExtTimestamp = ets THEN b
    ELSE LET transit == ToRTP(packetTime - b.firstTime) - ets
             d == IF transit - b.lastTransit < 0 THEN b.lastTransit - transit
                                                 ELSE transit - b.lastTransit
             j == IF b.lastTransit # 0 THEN b.jitter + ((d - b.jitter) \div 16)
                                       ELSE b.jitter
         IN  [b EXCEPT !.jitter = j,
                       !.maxJitter = IF j > @ THEN j ELSE @,
                       !.snapshots = [i \in DOMAIN @ |->
                                        IF b.lastTransit # 0 /\ j > @[i].maxJitter
                                        THEN [@[i] EXCEPT !.maxJitter = j] ELSE @[i]],
                       !.lastJitterExtTimestamp = ets,
                       !.lastTransit = transit]

\* ------------------------------------------------------------------------
\* RTPStatsReceiver

\* the constants of the propagation delay: factors in tenths, delays in
\* microseconds, waits in ms
cPropagationDelayFallFactor == 9
cPropagationDelayRiseFactor == 1
cPropagationDelaySpikeAdaptationFactor == 5
cPropagationDelayDeltaThresholdMin == 10000
cPropagationDelayDeltaThresholdMaxFactor == 2
cPropagationDelayDeltaHighResetNumReports == 2
cPropagationDelayDeltaHighResetWait == 10000
cPropagationDelayDeltaLongTermAdaptationThreshold == 50000
\* the slack on the RTP timestamp a sender report is expected to carry, ms
cReportSlack == 60000
\* the first packet time is adjusted in this window after the start, by
\* at most this much, ms
cFirstPacketTimeAdjustWindow == 120000
cFirstPacketTimeAdjustThreshold == 15000
\* the sequence numbers of a cycle, and the highest 24 bit cumulative loss
cNumSequenceNumbers == SnRange
cTotalLostMax == 2^24 - 1

tsRolloverThreshold == 2^30 \div (ClockRate \div 2000)

\* the propagation delay of the sender reports and the tracking of a change of
\* path, in microseconds (propagationDelayDeltaHighStartTime: ms, 0 is zero)
PropagationFields ==
    {"propagationDelay", "longTermDeltaPropagationDelay",
     "propagationDelayDeltaHighCount", "propagationDelayDeltaHighStartTime",
     "propagationDelaySpike"}

NewRTPStatsReceiver ==
    [f \in (DOMAIN BaseFields) \cup {"sequenceNumber", "timestamp", "history"}
            \cup PropagationFields |->
        CASE f = "sequenceNumber" -> WrapAroundNew
          [] f = "timestamp" -> WrapAroundNew
          [] f = "history" -> {}
          [] f \in PropagationFields -> 0
          [] OTHER -> BaseFields[f]]

FlowStateZero ==
    [IsNotHandled |-> FALSE, HasLoss |-> FALSE,
     LossStartInclusive |-> 0, LossEndExclusive |-> 0,
     IsDuplicate |-> FALSE, IsOutOfOrder |-> FALSE,
     ExtSequenceNumber |-> 0, ExtTimestamp |-> 0]

NotHandled(r) == [r |-> r, flowState |-> [FlowStateZero EXCEPT !.IsNotHandled = TRUE]]

\* a faulty getTSRolloverCount: a roll over is never forced
getTSRolloverCountNever(r, diff, ts) == -1

\* a faulty getTSRolloverCount: no roll over is 0 and not -1
getTSRolloverCountZero(r, diff, ts) ==
    IF diff < tsRolloverThreshold THEN 0
    ELSE LET excess == ToRTP(diff - tsRolloverThreshold * 2)
             roc == IF excess < 0 THEN 0 ELSE excess \div TsRange
         IN  IF GetHighest(r.timestamp) > ts THEN roc + 1 ELSE roc

getTSRolloverCount(r, diff, ts) ==
    IF diff < tsRolloverThreshold THEN -1
    ELSE LET excess == ToRTP(diff - tsRolloverThreshold * 2)
             roc == IF excess < 0 THEN 0 ELSE excess \div TsRange
         IN  IF GetHighest(r.timestamp) > ts THEN roc + 1 ELSE roc

\* a faulty isInRange: the operands of the difference are exchanged
isInRangeReversed(esn, ehsn) == esn - ehsn >= 0 /\ esn - ehsn < cHistorySize

\* a faulty isInRange: no bound on how far behind the highest
isInRangeUnbounded(esn, ehsn) == ehsn - esn >= 0

isInRange(esn, ehsn) == ehsn - esn >= 0 /\ ehsn - esn < cHistorySize

\* lines 291-292 of Update: the packet is one already accounted
RecvIsDuplicate(r, resSN) ==
    /\ isInRange(resSN.ExtendedVal, resSN.PreExtendedHighest)
    /\ BitmapIsSet(r.history, resSN.ExtendedVal)

\* a faulty RecvOutOfOrder: a repeat of the highest counts as out of order
RecvOutOfOrderAlways(r, p, resSN) ==
    LET pktSize == p.hdrSize + p.payloadSize + p.paddingSize
        inRange == isInRange(resSN.ExtendedVal, resSN.PreExtendedHighest)
        isDuplicate == RecvIsDuplicate(r, resSN)
    IN  [r EXCEPT
           !.packetsOutOfOrder = @ + 1,
           !.bytesDuplicate = IF isDuplicate THEN @ + pktSize ELSE @,
           !.headerBytesDuplicate = IF isDuplicate THEN @ + p.hdrSize ELSE @,
           !.packetsDuplicate = IF isDuplicate THEN @ + 1 ELSE @,
           !.packetsLost = IF inRange /\ ~isDuplicate THEN @ - 1 ELSE @,
           !.history = IF inRange /\ ~isDuplicate
                       THEN BitmapSet(@, resSN.ExtendedVal) ELSE @]

\* lines 286-313 of Update: a duplicate or out-of-order packet
RecvOutOfOrder(r, p, resSN) ==
    LET gapSN == resSN.ExtendedVal - resSN.PreExtendedHighest
        pktSize == p.hdrSize + p.payloadSize + p.paddingSize
        inRange == isInRange(resSN.ExtendedVal, resSN.PreExtendedHighest)
        isDuplicate == RecvIsDuplicate(r, resSN)
    IN  [r EXCEPT
           !.packetsOutOfOrder = IF gapSN # 0 THEN @ + 1 ELSE @,
           !.bytesDuplicate = IF isDuplicate THEN @ + pktSize ELSE @,
           !.headerBytesDuplicate = IF isDuplicate THEN @ + p.hdrSize ELSE @,
           !.packetsDuplicate = IF isDuplicate THEN @ + 1 ELSE @,
           !.packetsLost = IF inRange /\ ~isDuplicate THEN @ - 1 ELSE @,
           !.history = IF inRange /\ ~isDuplicate
                       THEN BitmapSet(@, resSN.ExtendedVal) ELSE @]

\* a faulty RecvInOrder: the packet itself is counted with the gap before it
RecvInOrderWholeGap(r, p, resSN, resTS) ==
    LET gapSN == resSN.ExtendedVal - resSN.PreExtendedHighest
        h == updateGapHistogram(r, gapSN)
    IN  [h EXCEPT
           !.history = BitmapSet(BitmapClearRange(@, resSN.PreExtendedHighest + 1,
                                                  resSN.ExtendedVal - 1),
                                 resSN.ExtendedVal),
           !.packetsLost = @ + gapSN,
           !.highestTime = IF p.timestamp # resTS.PreExtendedHighest % TsRange
                           THEN p.packetTime ELSE @]

\* lines 314-355 of Update: an in-order packet
RecvInOrder(r, p, resSN, resTS) ==
    LET gapSN == resSN.ExtendedVal - resSN.PreExtendedHighest
        h == updateGapHistogram(r, gapSN)
    IN  [h EXCEPT
           !.history = BitmapSet(BitmapClearRange(@, resSN.PreExtendedHighest + 1,
                                                  resSN.ExtendedVal - 1),
                                 resSN.ExtendedVal),
           !.packetsLost = @ + (gapSN - 1),
           !.highestTime = IF p.timestamp # resTS.PreExtendedHighest % TsRange
                           THEN p.packetTime ELSE @]

\* a faulty RecvCount: a duplicate is counted like any other packet
RecvCountAll(r, p, resTS, isDuplicate) ==
    [r EXCEPT !.bytes = @ + p.hdrSize + p.payloadSize + p.paddingSize,
              !.headerBytes = @ + p.hdrSize,
              !.frames = IF p.marker THEN @ + 1 ELSE @]

\* lines 359-374 of Update: the counters of a packet that is no duplicate
RecvCount(r, p, resTS, isDuplicate) ==
    LET pktSize == p.hdrSize + p.payloadSize + p.paddingSize
    IN  IF isDuplicate THEN r
        ELSE IF p.payloadSize = 0
        THEN [r EXCEPT !.packetsPadding = @ + 1,
                       !.bytesPadding = @ + pktSize,
                       !.headerBytesPadding = @ + p.hdrSize]
        ELSE updateJitter([r EXCEPT !.bytes = @ + pktSize,
                                    !.headerBytes = @ + p.hdrSize,
                                    !.frames = IF p.marker THEN @ + 1 ELSE @],
                          resTS.ExtendedVal, p.packetTime)

\* a faulty RecvAccount: the loss range reported ends after the packet itself
RecvAccountLossInclusive(r, p, resSN, resTS) ==
    LET gapSN == resSN.ExtendedVal - resSN.PreExtendedHighest
        r1 == IF gapSN <= 0 THEN RecvOutOfOrder(r, p, resSN)
                            ELSE RecvInOrder(r, p, resSN, resTS)
        isDuplicate == gapSN <= 0 /\ RecvIsDuplicate(r, resSN)
        fs == [FlowStateZero EXCEPT
                 !.IsDuplicate = isDuplicate,
                 !.IsOutOfOrder = gapSN <= 0,
                 !.HasLoss = gapSN > 1,
                 !.LossStartInclusive = IF gapSN > 1 THEN resSN.PreExtendedHighest + 1 ELSE 0,
                 !.LossEndExclusive = IF gapSN > 1 THEN resSN.ExtendedVal + 1 ELSE 0,
                 !.ExtSequenceNumber = resSN.ExtendedVal,
                 !.ExtTimestamp = resTS.ExtendedVal]
    IN  [r |-> RecvCount(r1, p, resTS, isDuplicate), flowState |-> fs]

\* lines 283-375 of Update: classification, counters and the flow state
RecvAccount(r, p, resSN, resTS) ==
    LET gapSN == resSN.ExtendedVal - resSN.PreExtendedHighest
        r1 == IF gapSN <= 0 THEN RecvOutOfOrder(r, p, resSN)
                            ELSE RecvInOrder(r, p, resSN, resTS)
        isDuplicate == gapSN <= 0 /\ RecvIsDuplicate(r, resSN)
        fs == [FlowStateZero EXCEPT
                 !.IsDuplicate = isDuplicate,
                 !.IsOutOfOrder = gapSN <= 0,
                 !.HasLoss = gapSN > 1,
                 !.LossStartInclusive = IF gapSN > 1 THEN resSN.PreExtendedHighest + 1 ELSE 0,
                 !.LossEndExclusive = IF gapSN > 1 THEN resSN.ExtendedVal ELSE 0,
                 !.ExtSequenceNumber = resSN.ExtendedVal,
                 !.ExtTimestamp = resTS.ExtendedVal]
    IN  [r |-> RecvCount(r1, p, resTS, isDuplicate), flowState |-> fs]

\* RTPStatsReceiver.Update: the receiver after the call and the flow state returned
RecvUpdate(r, p) ==
    IF r.endTime # 0 THEN NotHandled(r)
    ELSE IF ~r.initialized
    THEN IF p.payloadSize = 0 THEN NotHandled(r)
         ELSE LET sn == WrapAroundUpdate(r.sequenceNumber, p.sequenceNumber, SnRange)
                  ts == WrapAroundUpdate(r.timestamp, p.timestamp, TsRange)
                  r1 == [r EXCEPT !.initialized = TRUE,
                                  !.startTime = p.packetTime,
                                  !.firstTime = p.packetTime,
                                  !.highestTime = p.packetTime,
                                  !.sequenceNumber = sn.w,
                                  !.timestamp = ts.w,
                                  !.snapshots = [i \in DOMAIN @ |->
                                      initSnapshot(p.packetTime, GetExtendedStart(sn.w))]]
              IN  RecvAccount(r1, p, sn.res, ts.res)
    ELSE LET sn == WrapAroundUpdate(r.sequenceNumber, p.sequenceNumber, SnRange) IN
         IF sn.res.IsUnhandled THEN NotHandled(r)
         ELSE LET r1 == [r EXCEPT !.sequenceNumber = sn.w]
                  gapSN == sn.res.ExtendedVal - sn.res.PreExtendedHighest
                  timeSinceHighest == p.packetTime - r.highestTime
                  tsRolloverCount == getTSRolloverCount(r, timeSinceHighest, p.timestamp)
                  ts == WrapAroundRollover(r.timestamp, p.timestamp, tsRolloverCount, TsRange)
              IN  IF ts.res.IsUnhandled THEN NotHandled(r1)
                  ELSE LET r2 == [r1 EXCEPT !.timestamp = ts.w]
                           gapTS == ts.res.ExtendedVal - ts.res.PreExtendedHighest
                       IN  IF gapTS < 0 /\ gapSN > 0
                           THEN \* old packet: the sequence number extension is undone
                                NotHandled([r2 EXCEPT !.sequenceNumber =
                                              WrapAroundUndoUpdate(@, sn.res, SnRange)])
                           ELSE IF gapSN < 0 /\ gapTS > 0 /\ p.payloadSize > 0
                                   /\ tsRolloverCount >= 0
                           THEN LET sn2 == WrapAroundRollover(r2.sequenceNumber,
                                                              p.sequenceNumber, 1, SnRange)
                                IN  IF sn2.res.IsUnhandled THEN NotHandled(r2)
                                    ELSE RecvAccount([r2 EXCEPT !.sequenceNumber = sn2.w],
                                                     p, sn2.res, ts.res)
                           ELSE RecvAccount(r2, p, sn.res, ts.res)

\* rtpStatsBase.newSnapshotID as called by RTPStatsReceiver.NewSnapshotId
RecvNewSnapshotId(r) ==
    [r EXCEPT !.snapshots = Append(@,
        IF r.initialized
        THEN [initSnapshot(r.highestTime, GetExtendedHighest(r.sequenceNumber))
                EXCEPT !.packetsLost = r.packetsLost]
        ELSE InvalidSnapshot)]

\* rtpStatsBase.Stop: the owner marks the end of the stream
Stop(b, now) == [b EXCEPT !.endTime = now]

\* a faulty TsCycles: one cycle too many
TsCyclesNext(x) == x - (x % TsRange) + TsRange

\* a faulty TsCycles: the low 32 bits are not masked out
TsCyclesUnmasked(x) == x

\* x & 0xFFFF_FFFF_0000_0000 of an extended RTP timestamp: its cycles
TsCycles(x) == x - (x % TsRange)

\* time.Duration(a / b * float64(x)): the product, truncated towards zero
Scaled(a, b, x) == IF x >= 0 THEN (a * x) \div b ELSE -((a * (-x)) \div b)

\* the extended RTP timestamp the time since the newest report makes expected
expectedRTPTimestampExt(r, srData) ==
    r.srNewest.RTPTimestampExt
      + ToRTP(srData.NTPTimestamp - r.srNewest.NTPTimestamp)

\* isInRange of getExtendedSenderReport: the RTP timestamp of the report is
\* within cReportSlack of the expected one
isInSlack(r, srData) ==
    LET lbound == expectedRTPTimestampExt(r, srData) - ToRTP(cReportSlack)
        ubound == expectedRTPTimestampExt(r, srData) + ToRTP(cReportSlack)
    IN  /\ (srData.RTPTimestamp - lbound) % TsRange < TsRange \div 2
        /\ (ubound - srData.RTPTimestamp) % TsRange < TsRange \div 2

\* the fallback of getExtendedSenderReport takes a cycle off
isCycleSubtracted(r, srData) ==
    LET ts == srData.RTPTimestamp
        forward == (ts - r.srNewest.RTPTimestamp) % TsRange < TsRange \div 2
        c1 == IF forward /\ ts < r.srNewest.RTPTimestamp
              THEN TsCycles(r.srNewest.RTPTimestampExt) + TsRange
              ELSE TsCycles(r.srNewest.RTPTimestampExt)
    IN  ULe(TsRange, c1) /\ ~forward /\ ts > r.srNewest.RTPTimestamp

\* getExtendedSenderReport: the report with its RTP timestamp extended
getExtendedSenderReport(r, srData) ==
    LET ts == srData.RTPTimestamp
        half == TsRange \div 2
        tsCycles ==
          IF r.srNewest = <<>> THEN 0
          ELSE LET lbound == expectedRTPTimestampExt(r, srData) - ToRTP(cReportSlack)
                   ubound == expectedRTPTimestampExt(r, srData) + ToRTP(cReportSlack)
                   lbTSCycles == TsCycles(lbound)
                   ubTSCycles == TsCycles(ubound)
                   forward == (ts - r.srNewest.RTPTimestamp) % TsRange < half
                   c1 == IF forward /\ ts < r.srNewest.RTPTimestamp
                         THEN TsCycles(r.srNewest.RTPTimestampExt) + TsRange
                         ELSE TsCycles(r.srNewest.RTPTimestampExt)
               IN  IF isInSlack(r, srData)
                   THEN IF lbTSCycles = ubTSCycles THEN lbTSCycles
                        ELSE IF ts < half THEN ubTSCycles ELSE lbTSCycles
                   ELSE IF isCycleSubtracted(r, srData) THEN c1 - TsRange ELSE c1
    IN  [srData EXCEPT !.RTPTimestampExt = ts + tsCycles]

checkOutOfOrderSenderReport(r, srData) ==
    r.srNewest # <<>> /\ ULt(srData.RTPTimestampExt, r.srNewest.RTPTimestampExt)

\* resetDelta of updatePropagationDelayAndRecordSenderReport
resetDelta(r) ==
    [r EXCEPT !.propagationDelayDeltaHighCount = 0,
              !.propagationDelayDeltaHighStartTime = 0,
              !.propagationDelaySpike = 0]

\* initPropagationDelay of updatePropagationDelayAndRecordSenderReport
initPropagationDelay(r, pd) ==
    resetDelta([r EXCEPT !.propagationDelay = pd,
                         !.longTermDeltaPropagationDelay = 0])

\* the path change branch: a sharp rise of the propagation delay
PathChange(r, propagationDelay, now) ==
    LET r1 == [r EXCEPT
                 !.propagationDelayDeltaHighCount = @ + 1,
                 !.propagationDelayDeltaHighStartTime = IF @ = 0 THEN now ELSE @,
                 !.propagationDelaySpike =
                     IF @ = 0 THEN propagationDelay
                     ELSE @ + Scaled(cPropagationDelaySpikeAdaptationFactor, 10,
                                     propagationDelay - @)]
    IN  IF /\ r1.propagationDelayDeltaHighCount
                >= cPropagationDelayDeltaHighResetNumReports
           /\ now - r1.propagationDelayDeltaHighStartTime
                >= cPropagationDelayDeltaHighResetWait
        THEN initPropagationDelay(r1, r1.propagationDelaySpike)
        ELSE r1

\* the condition of the path change branch
isSharpIncrease(r, deltaPropagationDelay) ==
    /\ r.longTermDeltaPropagationDelay # 0
    /\ deltaPropagationDelay
         > r.longTermDeltaPropagationDelay * cPropagationDelayDeltaThresholdMaxFactor

\* the adaptation of longTermDeltaPropagationDelay
LongTermDelta(r, srData, deltaPropagationDelay) ==
    LET lt == IF deltaPropagationDelay
                   >= cPropagationDelayDeltaLongTermAdaptationThreshold
              THEN r.longTermDeltaPropagationDelay
              ELSE IF r.longTermDeltaPropagationDelay = 0 THEN deltaPropagationDelay
              ELSE LET sinceLastReport ==
                           srData.NTPTimestamp - r.srNewest.NTPTimestamp
                       d == deltaPropagationDelay - r.longTermDeltaPropagationDelay
                   IN  r.longTermDeltaPropagationDelay
                         + (IF sinceLastReport >= cPropagationDelayDeltaHighResetWait
                            THEN d
                            ELSE Scaled(sinceLastReport,
                                        cPropagationDelayDeltaHighResetWait, d))
    IN  IF lt < 0 THEN 0 ELSE lt

\* updatePropagationDelayAndRecordSenderReport; the delays are in microseconds
updatePropagationDelayAndRecordSenderReport(r, srData, now) ==
    LET ntpTime == srData.NTPTimestamp
        propagationDelay == (srData.At - ntpTime) * 1000
        deltaPropagationDelay == propagationDelay - r.propagationDelay
        r1 == IF r.srFirst = <<>>
              THEN initPropagationDelay([r EXCEPT !.srFirst = srData], propagationDelay)
              ELSE LET r2 ==
                         IF deltaPropagationDelay > cPropagationDelayDeltaThresholdMin
                         THEN IF isSharpIncrease(r, deltaPropagationDelay)
                              THEN PathChange(r, propagationDelay, now)
                              ELSE resetDelta(r)
                         ELSE [resetDelta(r) EXCEPT !.propagationDelay =
                                 @ + Scaled(IF propagationDelay > @
                                            THEN cPropagationDelayRiseFactor
                                            ELSE cPropagationDelayFallFactor,
                                            10, propagationDelay - @)]
                   IN  [r2 EXCEPT !.longTermDeltaPropagationDelay =
                          LongTermDelta(r2, srData, deltaPropagationDelay)]
        adjusted == [srData EXCEPT !.AtAdjusted = ntpTime + r1.propagationDelay \div 1000]
    IN  [r1 EXCEPT !.srNewest = adjusted,
                   !.srFirst = IF r.srFirst = <<>> THEN adjusted ELSE @]

\* rtpStatsBase.maybeAdjustFirstPacketTime: early in the stream the time of
\* the first packet moves back to the time the report's clock gives to the
\* first sample
maybeAdjustFirstPacketTime(b, srData, tsOffset, extStartTS, now) ==
    IF now - b.startTime > cFirstPacketTimeAdjustWindow THEN b
    ELSE LET extNowTS == srData.RTPTimestampExt - tsOffset
                           + ToRTP(now - srData.AtAdjusted)
             samplesDiff == extNowTS - extStartTS
             firstTime == now - (samplesDiff * 8) \div 3
         IN  IF samplesDiff < 0 \/ samplesDiff > TsRange THEN b
             ELSE IF firstTime < b.firstTime
                     /\ b.firstTime - firstTime <= cFirstPacketTimeAdjustThreshold
             THEN [b EXCEPT !.firstTime = firstTime]
             ELSE b

\* a faulty SRAccepted: a report behind the media packets received is dropped
SRAcceptedAfterMedia(r, srData) ==
    /\ srData # <<>> /\ r.initialized
    /\ ~(r.srNewest # <<>> /\ ULt(srData.NTPTimestamp, r.srNewest.NTPTimestamp))
    /\ ~checkOutOfOrderSenderReport(r, getExtendedSenderReport(r, srData))
    /\ srData.RTPTimestamp >= GetHighest(r.timestamp)

\* a faulty SRAccepted: a report older than the newest is taken
SRAcceptedAny(r, srData) == srData # <<>> /\ r.initialized

\* the reports SetRtcpSenderReportData does not drop
SRAccepted(r, srData) ==
    /\ srData # <<>> /\ r.initialized
    /\ ~(r.srNewest # <<>> /\ ULt(srData.NTPTimestamp, r.srNewest.NTPTimestamp))
    /\ ~checkOutOfOrderSenderReport(r, getExtendedSenderReport(r, srData))

\* SetRtcpSenderReportData: the receiver after the call and what it returns
SetRtcpSenderReportData(r, srData, now) ==
    IF ~SRAccepted(r, srData) THEN [r |-> r, ok |-> FALSE]
    ELSE LET r1 == updatePropagationDelayAndRecordSenderReport(
                       r, getExtendedSenderReport(r, srData), now)
         IN  [r |-> maybeAdjustFirstPacketTime(r1, r1.srNewest, 0,
                                               GetExtendedStart(r1.timestamp), now),
              ok |-> TRUE]

\* uint8(x) of a float32 x >= 0 whose integer part is v.  A value that does
\* not fit is converted as the implementation chooses: the low 8 bits of the
\* integer (amd64) or the saturated value (arm64).
Uint8OfFloat(v) == IF v <= 255 THEN {v} ELSE {v % 256, 255}

\* the fractions GetRtcpReceptionReport may report.  packetsExpected is at most
\* cNumSequenceNumbers, so the float32 quotient is exact enough for the
\* integer part of lossRate * 256 to be that of the exact quotient.
FractionLost(packetsLost, packetsExpected, proxyFracLost) ==
    {IF proxyFracLost > f THEN proxyFracLost ELSE f :
        f \in Uint8OfFloat((256 * packetsLost) \div packetsExpected)}

\* the reports GetRtcpReceptionReport may return from the two snapshots
\* (<<>>: nil)
ReceptionReports(r, then, now, proxyFracLost, at) ==
    LET packetsExpected == now.extStartSN - then.extStartSN
        lost == now.packetsLost - then.packetsLost
        packetsLost == IF lost < 0 THEN 0 ELSE lost
    IN  IF ULt(cNumSequenceNumbers, packetsExpected) \/ packetsExpected = 0 THEN {<<>>}
        ELSE {[FractionLost |-> f,
               TotalLost |-> IF ULt(cTotalLostMax, r.packetsLost) THEN cTotalLostMax
                             ELSE r.packetsLost,
               LastSequenceNumber |-> U32(now.extStartSN),
               Jitter |-> r.jitter,
               LastSenderReport |-> IF r.srNewest = <<>> THEN 0
                                    ELSE r.srNewest.NTPTimestamp,
               Delay |-> IF r.srNewest = <<>> THEN 0 ELSE at - r.srNewest.At] :
                 f \in FractionLost(packetsLost, packetsExpected, proxyFracLost)}

\* GetRtcpReceptionReport: the receivers after the call with the report each
\* returns
GetRtcpReceptionReport(r, proxyFracLost, idx, at) ==
    LET extHighestSN == GetExtendedHighest(r.sequenceNumber)
        u == getAndResetSnapshot(r, idx, GetExtendedStart(r.sequenceNumber),
                                 extHighestSN, at)
    IN  IF u.now = <<>> \/ u.then = <<>> THEN {[r |-> u.b, rr |-> <<>>]}
        ELSE {[r |-> u.b, rr |-> rr] :
                rr \in ReceptionReports(r, u.then, u.now, proxyFracLost, at)}

\* ------------------------------------------------------------------------
\* RTPStatsSender

intervalStatsZero ==
    [packets |-> 0, bytes |-> 0, headerBytes |-> 0,
     packetsPadding |-> 0, bytesPadding |-> 0, headerBytesPadding |-> 0,
     packetsLost |-> 0, packetsOutOfOrder |-> 0, frames |-> 0, packetsNotFound |-> 0]

aggregate(is, other) ==
    [f \in DOMAIN is |-> is[f] + other[f]]

senderSnapshotZero ==
    [isValid |-> FALSE, startTime |-> 0, extStartSN |-> 0,
     bytes |-> 0, headerBytes |-> 0,
     packetsPadding |-> 0, bytesPadding |-> 0, headerBytesPadding |-> 0,
     packetsDuplicate |-> 0, bytesDuplicate |-> 0, headerBytesDuplicate |-> 0,
     packetsOutOfOrder |-> 0, packetsLostFeed |-> 0, packetsLost |-> 0,
     frames |-> 0, maxRtt |-> 0, maxJitterFeed |-> 0, maxJitter |-> 0,
     extLastRRSN |-> 0, intervalStats |-> intervalStatsZero]

initSenderSnapshot(startTime, extStartSN) ==
    [senderSnapshotZero EXCEPT !.isValid = TRUE, !.startTime = startTime,
                               !.extStartSN = extStartSN, !.extLastRRSN = extStartSN - 1]

ReceptionReportZero ==
    [LastSequenceNumber |-> 0, TotalLost |-> 0, Jitter |-> 0,
     LastSenderReport |-> 0, Delay |-> 0]

NewRTPStatsSender ==
    [f \in (DOMAIN BaseFields) \cup
           {"extStartSN", "extHighestSN", "extHighestSNFromRR", "lastRRTime", "lastRR",
            "extStartTS", "extHighestTS", "packetsLostFromRR", "jitterFromRR",
            "maxJitterFromRR", "snInfos", "senderSnapshots"} |->
        CASE f = "lastRR" -> ReceptionReportZero
          [] f = "snInfos" -> <<>>
          [] f = "senderSnapshots" -> <<>>
          [] f \in DOMAIN BaseFields -> BaseFields[f]
          [] OTHER -> 0]

\* the packet metadata ring snInfos is held as a function from the slots whose
\* snInfo is not all zero to their snInfo
snInfoZero == [pktSize |-> 0, hdrSize |-> 0, marker |-> FALSE, padding |-> FALSE,
               outOfOrder |-> FALSE]

snInfoAt(snInfos, slot) == IF slot \in DOMAIN snInfos THEN snInfos[slot] ELSE snInfoZero

snInfoPut(snInfos, slot, info) ==
    IF info = snInfoZero
    THEN [x \in (DOMAIN snInfos) \ {slot} |-> snInfos[x]]
    ELSE [x \in (DOMAIN snInfos) \cup {slot} |-> IF x = slot THEN info ELSE snInfos[x]]

\* a faulty getSnInfoOutOfOrderSlot: a packet has a slot however old it is
getSnInfoOutOfOrderSlotUnbounded(esn, ehsn) ==
    IF ehsn - esn < 0 THEN -1 ELSE esn % cSnInfoSize

getSnInfoOutOfOrderSlot(esn, ehsn) ==
    IF ehsn - esn >= cSnInfoSize \/ ehsn - esn < 0 THEN -1 ELSE esn % cSnInfoSize

setSnInfo(snInfos, esn, ehsn, pktSize, hdrSize, payloadSize, marker, isOutOfOrder) ==
    LET slot == IF esn - ehsn < 0 THEN getSnInfoOutOfOrderSlot(esn, ehsn)
                                  ELSE esn % cSnInfoSize
    IN  IF slot < 0 THEN snInfos
        ELSE snInfoPut(snInfos, slot,
                       [pktSize |-> pktSize, hdrSize |-> hdrSize, marker |-> marker,
                        padding |-> payloadSize = 0, outOfOrder |-> isOutOfOrder])

clearSnInfos(snInfos, extStartInclusive, extEndExclusive) ==
    IF ULe(extEndExclusive, extStartInclusive) THEN snInfos
    ELSE IF extEndExclusive - extStartInclusive >= cSnInfoSize
            \/ extEndExclusive - extStartInclusive < 0
    THEN <<>>
    ELSE [x \in {y \in DOMAIN snInfos :
                   (y - extStartInclusive) % cSnInfoSize
                       >= extEndExclusive - extStartInclusive} |-> snInfos[x]]

isSnInfoLost(snInfos, esn, ehsn) ==
    IF getSnInfoOutOfOrderSlot(esn, ehsn) < 0 THEN FALSE
    ELSE snInfoAt(snInfos, getSnInfoOutOfOrderSlot(esn, ehsn)).pktSize = 0

\* a faulty SendLowerStart: the packets between the new start and the old one
\* are not counted as lost
SendLowerStartNoLoss(s, extSN) == [s EXCEPT !.extStartSN = extSN]

\* a faulty SendLowerStart: the highest is moved down with the start
SendLowerStartAndHighest(s, extSN) ==
    [s EXCEPT !.packetsLost = @ + (s.extStartSN - extSN),
              !.extStartSN = extSN,
              !.extHighestSN = extSN]

\* a faulty SendLowerStart: every snapshot is moved to the new start
SendLowerStartAll(s, extSN) ==
    [s EXCEPT
       !.packetsLost = @ + (s.extStartSN - extSN),
       !.snapshots = [i \in DOMAIN @ |-> [@[i] EXCEPT !.extStartSN = extSN]],
       !.senderSnapshots = [i \in DOMAIN @ |->
                        [@[i] EXCEPT !.extStartSN = extSN,
                                     !.extLastRRSN = IF @ = s.extStartSN - 1
                                                     THEN extSN - 1 ELSE @]],
       !.extStartSN = extSN]

\* lines 308-336 of Update: the start of the stream is moved down to extSN
SendLowerStart(s, extSN) ==
    [s EXCEPT
       !.packetsLost = @ + (s.extStartSN - extSN),
       !.snapshots = [i \in DOMAIN @ |->
                        IF @[i].extStartSN = s.extStartSN
                        THEN [@[i] EXCEPT !.extStartSN = extSN] ELSE @[i]],
       !.senderSnapshots = [i \in DOMAIN @ |->
                        IF @[i].extStartSN = s.extStartSN
                        THEN [@[i] EXCEPT !.extStartSN = extSN,
                                          !.extLastRRSN = IF @ = s.extStartSN - 1
                                                          THEN extSN - 1 ELSE @]
                        ELSE @[i]],
       !.extStartSN = extSN]

\* lines 394-436 of Update: timestamps, counters and jitter
SendCount(s, p, isDuplicate) ==
    LET pktSize == p.hdrSize + p.payloadSize + p.paddingSize
        s1 == [s EXCEPT
                 !.extStartTS = IF ULt(p.extTimestamp, @) THEN p.extTimestamp ELSE @,
                 !.highestTime = IF ULt(s.extHighestTS, p.extTimestamp) /\ p.payloadSize > 0
                                 THEN p.packetTime ELSE @,
                 !.extHighestTS = IF ULt(@, p.extTimestamp) THEN p.extTimestamp ELSE @]
    IN  IF isDuplicate THEN s1
        ELSE IF p.payloadSize = 0
        THEN [s1 EXCEPT !.packetsPadding = @ + 1,
                        !.bytesPadding = @ + pktSize,
                        !.headerBytesPadding = @ + p.hdrSize]
        ELSE LET s2 == updateJitter([s1 EXCEPT !.bytes = @ + pktSize,
                                               !.headerBytes = @ + p.hdrSize,
                                               !.frames = IF p.marker THEN @ + 1 ELSE @],
                                    p.extTimestamp, p.packetTime)
             IN  [s2 EXCEPT !.senderSnapshots = [i \in DOMAIN @ |->
                                IF s2.jitter > @[i].maxJitterFeed
                                THEN [@[i] EXCEPT !.maxJitterFeed = s2.jitter] ELSE @[i]]]

\* lines 285-392 of Update: classification against extHighestSN
SendAccount(s, p) ==
    LET extSN == p.extSequenceNumber
        pktSize == p.hdrSize + p.payloadSize + p.paddingSize
        gapSN == extSN - s.extHighestSN
    IN  IF gapSN <= 0
        THEN IF p.payloadSize = 0 /\ ULt(extSN, s.extStartSN) THEN s
             ELSE LET s1 == IF ULt(extSN, s.extStartSN) THEN SendLowerStart(s, extSN) ELSE s
                      s2 == [s1 EXCEPT !.packetsOutOfOrder = IF gapSN # 0 THEN @ + 1 ELSE @]
                      isDuplicate == ~isSnInfoLost(s.snInfos, extSN, s.extHighestSN)
                      s3 == IF isDuplicate
                            THEN [s2 EXCEPT !.bytesDuplicate = @ + pktSize,
                                            !.headerBytesDuplicate = @ + p.hdrSize,
                                            !.packetsDuplicate = @ + 1]
                            ELSE [s2 EXCEPT !.packetsLost = @ - 1,
                                            !.snInfos = setSnInfo(@, extSN, s.extHighestSN,
                                                          pktSize % 2^16, p.hdrSize % 2^8,
                                                          p.payloadSize % 2^16, p.marker, TRUE)]
                  IN  SendCount(s3, p, isDuplicate)
        ELSE LET s1 == updateGapHistogram(s, gapSN)
                 s2 == [s1 EXCEPT
                          !.snInfos = setSnInfo(clearSnInfos(@, s.extHighestSN + 1, extSN),
                                                extSN, s.extHighestSN,
                                                pktSize % 2^16, p.hdrSize % 2^8,
                                                p.payloadSize % 2^16, p.marker, FALSE),
                          !.packetsLost = @ + (gapSN - 1),
                          !.extHighestSN = extSN]
             IN  SendCount(s2, p, FALSE)

\* RTPStatsSender.Update
\* a faulty SendUpdate: the stream starts on a padding only packet too
SendUpdateFromPadding(s, p) ==
    IF s.endTime # 0 THEN s
    ELSE IF ~s.initialized
    THEN SendAccount(
           [s EXCEPT !.initialized = TRUE,
                     !.startTime = p.packetTime,
                     !.firstTime = p.packetTime,
                     !.highestTime = p.packetTime,
                     !.extStartSN = p.extSequenceNumber,
                     !.extHighestSN = p.extSequenceNumber - 1,
                     !.extStartTS = p.extTimestamp,
                     !.extHighestTS = p.extTimestamp,
                     !.snapshots = [i \in DOMAIN @ |->
                         initSnapshot(p.packetTime, p.extSequenceNumber)],
                     !.senderSnapshots = [i \in DOMAIN @ |->
                         initSenderSnapshot(p.packetTime, p.extSequenceNumber)]],
           p)
    ELSE SendAccount(s, p)

SendUpdate(s, p) ==
    IF s.endTime # 0 THEN s
    ELSE IF ~s.initialized
    THEN IF p.payloadSize = 0 THEN s
         ELSE SendAccount(
                [s EXCEPT !.initialized = TRUE,
                          !.startTime = p.packetTime,
                          !.firstTime = p.packetTime,
                          !.highestTime = p.packetTime,
                          !.extStartSN = p.extSequenceNumber,
                          !.extHighestSN = p.extSequenceNumber - 1,
                          !.extStartTS = p.extTimestamp,
                          !.extHighestTS = p.extTimestamp,
                          !.snapshots = [i \in DOMAIN @ |->
                              initSnapshot(p.packetTime, p.extSequenceNumber)],
                          !.senderSnapshots = [i \in DOMAIN @ |->
                              initSenderSnapshot(p.packetTime, p.extSequenceNumber)]],
                p)
    ELSE SendAccount(s, p)

\* rtpStatsBase.newSnapshotID as called by RTPStatsSender.NewSnapshotId
SendNewSnapshotId(s, now) ==
    [s EXCEPT !.snapshots = Append(@,
        IF s.initialized
        THEN [initSnapshot(now, s.extHighestSN) EXCEPT !.packetsLost = s.packetsLost]
        ELSE InvalidSnapshot)]

\* RTPStatsSender.NewSenderSnapshotId
NewSenderSnapshotId(s, now) ==
    [s EXCEPT !.senderSnapshots = Append(@,
        IF s.initialized THEN initSenderSnapshot(now, s.extHighestSN)
                         ELSE senderSnapshotZero)]

RECURSIVE SumOver(_, _, _)
SumOver(snInfos, slots, field) ==
    IF slots = {} THEN 0
    ELSE LET x == CHOOSE y \in slots : TRUE
         IN  snInfos[x][field] + SumOver(snInfos, slots \ {x}, field)

\* getIntervalStats walks esn from extStartInclusive up to extEndExclusive.
\* The walk is summed here per class: the esn outside the ring window of ehsn
\* are not found, and of those inside, the slots that hold a packet are read
\* from snInfos and the others are lost.
getIntervalStats(snInfos, extStartInclusive, extEndExclusive, ehsn) ==
    LET lo == IF extStartInclusive > ehsn - cSnInfoSize + 1
              THEN extStartInclusive ELSE ehsn - cSnInfoSize + 1
        hi == IF extEndExclusive - 1 < ehsn THEN extEndExclusive - 1 ELSE ehsn
        inWindow == IF hi >= lo THEN hi - lo + 1 ELSE 0
        esnOf(slot) == ehsn - ((ehsn - slot) % cSnInfoSize)
        walked == {x \in DOMAIN snInfos : esnOf(x) >= lo /\ esnOf(x) <= hi}
        held == {x \in walked : snInfos[x].pktSize # 0}
        padding == {x \in held : snInfos[x].padding}
        payload == held \ padding
    IN  [packets |-> Cardinality(payload),
         bytes |-> SumOver(snInfos, payload, "pktSize"),
         headerBytes |-> SumOver(snInfos, payload, "hdrSize"),
         packetsPadding |-> Cardinality(padding),
         bytesPadding |-> SumOver(snInfos, padding, "pktSize"),
         headerBytesPadding |-> SumOver(snInfos, padding, "hdrSize"),
         packetsLost |-> inWindow - Cardinality(held),
         packetsOutOfOrder |-> Cardinality({x \in payload : snInfos[x].outOfOrder}),
         frames |-> Cardinality({x \in walked : snInfos[x].marker}),
         packetsNotFound |-> (extEndExclusive - extStartInclusive) - inWindow]

\* mediatransportutil.GetRttMs: the round trip time in ms of a receiver report
\* that echoes the sender report sent at lastSentAt, or an error
GetRttMs(rr, lastSRNTP, lastSentAt, now) ==
    IF rr.LastSenderReport = 0 \/ rr.LastSenderReport # lastSRNTP
       \/ now - lastSentAt - rr.Delay < 0
    THEN [rtt |-> 0, err |-> TRUE]
    ELSE [rtt |-> now - lastSentAt - rr.Delay, err |-> FALSE]

\* a faulty SenderSnapshotOnRR: the walk of the ring starts at the last
\* sequence number reported, which is counted again
SenderSnapshotOnRRTwice(s, snap, extReceivedRRSN, rtt, isRttChanged) ==
    LET s1 == [snap EXCEPT !.maxRtt = IF isRttChanged /\ rtt > @ THEN rtt ELSE @,
                           !.maxJitter = IF s.jitterFromRR > @ THEN s.jitterFromRR ELSE @]
    IN  IF extReceivedRRSN - snap.extLastRRSN < 0
           \/ extReceivedRRSN - snap.extLastRRSN > 2^15
        THEN s1
        ELSE [s1 EXCEPT !.intervalStats =
                           aggregate(@, getIntervalStats(s.snInfos, snap.extLastRRSN,
                                                         extReceivedRRSN + 1, s.extHighestSN)),
                        !.extLastRRSN = extReceivedRRSN]

\* a faulty SenderSnapshotOnRR: the sender snapshot is left as it was
SenderSnapshotOnRRKept(s, snap, extReceivedRRSN, rtt, isRttChanged) == snap

\* lines 515-567 of UpdateFromReceiverReport: one sender snapshot
SenderSnapshotOnRR(s, snap, extReceivedRRSN, rtt, isRttChanged) ==
    LET s1 == [snap EXCEPT !.maxRtt = IF isRttChanged /\ rtt > @ THEN rtt ELSE @,
                           !.maxJitter = IF s.jitterFromRR > @ THEN s.jitterFromRR ELSE @]
    IN  IF extReceivedRRSN - snap.extLastRRSN < 0
           \/ extReceivedRRSN - snap.extLastRRSN > 2^15
        THEN s1
        ELSE [s1 EXCEPT !.intervalStats =
                           aggregate(@, getIntervalStats(s.snInfos, snap.extLastRRSN + 1,
                                                         extReceivedRRSN + 1, s.extHighestSN)),
                        !.extLastRRSN = extReceivedRRSN]

\* lines 454-459 of UpdateFromReceiverReport: the last sequence number of a
\* receiver report, extended by the cycles of the stored one
extendLastSequenceNumber(s, rr) ==
    LET ext0 == Cycles32(s.extHighestSNFromRR) + rr.LastSequenceNumber
    IN  IF s.lastRRTime # 0
           /\ Wrapped32(rr.LastSequenceNumber, s.lastRR.LastSequenceNumber)
        THEN ext0 + 2^16 * 2^16 ELSE ext0

\* a faulty isOutOfOrderRR: no report is taken as out of order
isOutOfOrderRRNever(s, extHighestSNFromRR) == FALSE

\* line 466 of UpdateFromReceiverReport: the report is behind the last one
isOutOfOrderRR(s, extHighestSNFromRR) ==
    s.lastRRTime # 0 /\ ULt(extHighestSNFromRR, s.extHighestSNFromRR)

\* lines 454-571 of UpdateFromReceiverReport: the report of a running stream
ReceiverReportApply(s, rr, now) ==
    LET ignored == [s |-> s, rtt |-> 0, isRttChanged |-> FALSE]
        extHighestSNFromRR == extendLastSequenceNumber(s, rr)
        startCycles == s.extStartSN - (s.extStartSN % 2^16)
    IN  IF ULt(extHighestSNFromRR + startCycles, s.extStartSN) THEN ignored
        ELSE IF isOutOfOrderRR(s, extHighestSNFromRR) THEN ignored
        ELSE LET got == IF s.srNewest # <<>>
                        THEN GetRttMs(rr, s.srNewest.NTPTimestamp, s.srNewest.At, now)
                        ELSE [rtt |-> 0, err |-> TRUE]
                 rtt == got.rtt
                 isRttChanged == ~got.err /\ rtt # s.rtt
                 lost0 == Cycles32(s.packetsLostFromRR) + rr.TotalLost
                 packetsLostFromRR == IF Wrapped32(rr.TotalLost, s.lastRR.TotalLost)
                                      THEN lost0 + 2^16 * 2^16 ELSE lost0
                 s1 == [s EXCEPT
                          !.extHighestSNFromRR = extHighestSNFromRR,
                          !.packetsLostFromRR = packetsLostFromRR,
                          !.rtt = IF isRttChanged THEN rtt ELSE @,
                          !.maxRtt = IF isRttChanged /\ rtt > @ THEN rtt ELSE @,
                          !.jitterFromRR = rr.Jitter,
                          !.maxJitterFromRR = IF rr.Jitter > @ THEN rr.Jitter ELSE @,
                          !.snapshots = [i \in DOMAIN @ |->
                              IF isRttChanged /\ rtt > @[i].maxRtt
                              THEN [@[i] EXCEPT !.maxRtt = rtt] ELSE @[i]]]
                 extReceivedRRSN == extHighestSNFromRR + startCycles
                 s2 == [s1 EXCEPT
                          !.senderSnapshots = [i \in DOMAIN @ |->
                              SenderSnapshotOnRR(s1, @[i], extReceivedRRSN, rtt, isRttChanged)],
                          !.lastRRTime = now,
                          !.lastRR = rr]
             IN  [s |-> s2, rtt |-> rtt, isRttChanged |-> isRttChanged]

\* a faulty UpdateFromReceiverReport: the end of the stream is not looked at
UpdateFromReceiverReportAfterEnd(s, rr, now) ==
    IF ~s.initialized THEN [s |-> s, rtt |-> 0, isRttChanged |-> FALSE]
    ELSE ReceiverReportApply(s, rr, now)

\* RTPStatsSender.UpdateFromReceiverReport: the sender after the call and the
\* values returned
UpdateFromReceiverReport(s, rr, now) ==
    IF ~s.initialized \/ s.endTime # 0 THEN [s |-> s, rtt |-> 0, isRttChanged |-> FALSE]
    ELSE ReceiverReportApply(s, rr, now)

\* rtpStatsBase.getTotalPacketsPrimary
getTotalPacketsPrimary(b, extStartSN, extHighestSN) ==
    LET packetsExpected == extHighestSN - extStartSN + 1
        packetsSeen == packetsExpected - b.packetsLost
    IN  IF ULt(packetsExpected, b.packetsLost) THEN 0
        ELSE IF ULt(packetsSeen, b.packetsPadding) THEN 0
        ELSE packetsSeen - b.packetsPadding

\* lines 617-629 of GetRtcpSenderReport: the extended RTP timestamp of the
\* report, that of the publisher's report brought to the time of the call
\* unless it is passed through
senderReportRTPExt(publisherSRData, tsOffset, passThrough, now) ==
    IF passThrough
    THEN publisherSRData.RTPTimestampExt - tsOffset
    ELSE publisherSRData.RTPTimestampExt - tsOffset
           + ToRTP(now - publisherSRData.AtAdjusted)

\* a faulty isOutOfOrderSR: no report is taken as out of order
isOutOfOrderSRNever(s, nowRTPExt) == FALSE

\* line 677 of GetRtcpSenderReport: the report is behind the last one
isOutOfOrderSR(s, nowRTPExt) ==
    s.srNewest # <<>> /\ ULt(nowRTPExt, s.srNewest.RTPTimestampExt)

\* RTPStatsSender.GetRtcpSenderReport: the sender after the call and the report
\* returned (<<>>: nil).  NTP timestamps are held as their time in ms.
GetRtcpSenderReport(s, publisherSRData, tsOffset, passThrough, now) ==
    IF ~s.initialized \/ publisherSRData = <<>> THEN [s |-> s, sr |-> <<>>]
    ELSE LET nowNTP == IF passThrough THEN publisherSRData.NTPTimestamp ELSE now
             nowRTPExt == senderReportRTPExt(publisherSRData, tsOffset, passThrough, now)
             packetCount == U32(getTotalPacketsPrimary(s, s.extStartSN, s.extHighestSN)
                                  + s.packetsDuplicate + s.packetsPadding)
             octetCount == U32(s.bytes + s.bytesDuplicate + s.bytesPadding)
             srData == [NTPTimestamp |-> nowNTP,
                        RTPTimestamp |-> nowRTPExt % TsRange,
                        RTPTimestampExt |-> nowRTPExt,
                        At |-> now, AtAdjusted |-> now,
                        Packets |-> packetCount, Octets |-> octetCount]
         IN  IF isOutOfOrderSR(s, nowRTPExt)
             THEN [s |-> s, sr |-> <<>>]
             ELSE [s |-> [s EXCEPT !.srNewest = srData,
                                   !.srFirst = IF @ = <<>> THEN srData ELSE @],
                   sr |-> [NTPTime |-> nowNTP, RTPTime |-> nowRTPExt % TsRange,
                           PacketCount |-> packetCount, OctetCount |-> octetCount]]

\* getSenderSnapshot: the sender snapshot that follows snap.  The fields it
\* does not set (packetsLost, intervalStats) are zero.
getSenderSnapshot(s, startTime, snap) ==
    [senderSnapshotZero EXCEPT
       !.isValid = TRUE,
       !.startTime = startTime,
       !.extStartSN = snap.extLastRRSN + 1,
       !.bytes = snap.bytes + snap.intervalStats.bytes,
       !.headerBytes = snap.headerBytes + snap.intervalStats.headerBytes,
       !.packetsPadding = snap.packetsPadding + snap.intervalStats.packetsPadding,
       !.bytesPadding = snap.bytesPadding + snap.intervalStats.bytesPadding,
       !.headerBytesPadding =
           snap.headerBytesPadding + snap.intervalStats.headerBytesPadding,
       !.packetsDuplicate = s.packetsDuplicate,
       !.bytesDuplicate = s.bytesDuplicate,
       !.headerBytesDuplicate = s.headerBytesDuplicate,
       !.packetsLostFeed = s.packetsLost,
       !.packetsOutOfOrder =
           snap.packetsOutOfOrder + snap.intervalStats.packetsOutOfOrder,
       !.frames = snap.frames + snap.intervalStats.frames,
       !.maxRtt = s.rtt,
       !.maxJitterFeed = s.jitter,
       !.maxJitter = s.jitterFromRR,
       !.extLastRRSN = snap.extLastRRSN]

\* a faulty getAndResetSenderSnapshot: every sender snapshot is reset
getAndResetSenderSnapshotAll(s, idx) ==
    IF ~s.initialized \/ s.lastRRTime = 0 THEN [s |-> s, then |-> <<>>, now |-> <<>>]
    ELSE [s |-> [s EXCEPT !.senderSnapshots =
                    [i \in DOMAIN @ |-> getSenderSnapshot(s, s.lastRRTime, @[i])]],
          then |-> s.senderSnapshots[idx],
          now |-> getSenderSnapshot(s, s.lastRRTime, s.senderSnapshots[idx])]

\* getAndResetSenderSnapshot: the sender after the call and the two snapshots
\* (<<>>: nil)
getAndResetSenderSnapshot(s, idx) ==
    IF ~s.initialized \/ s.lastRRTime = 0 THEN [s |-> s, then |-> <<>>, now |-> <<>>]
    ELSE LET then == IF s.senderSnapshots[idx].isValid THEN s.senderSnapshots[idx]
                     ELSE initSenderSnapshot(s.startTime, s.extStartSN)
             snap == getSenderSnapshot(s, s.lastRRTime, then)
         IN  [s |-> [s EXCEPT !.senderSnapshots[idx] = snap],
              then |-> then, now |-> snap]

\* uint32(d) of a difference d of two counters, and 0 in its place where
\* int32(uint32(d)) < 0: d is above -2^31 in every run
Lost32(d) == IF d < 0 \/ U32(d) \div 2^16 >= 2^15 THEN 0 ELSE U32(d)

\* RTPStatsSender.DeltaInfoSender: the sender after the call and the delta
\* returned (<<>>: nil).  The jitter is left in RTP units.
DeltaInfoSender(s, idx) ==
    IF s.lastRRTime = 0 THEN [s |-> s, info |-> <<>>]
    ELSE LET u == getAndResetSenderSnapshot(s, idx)
             then == u.then
             now == u.now
             expected == now.extStartSN - then.extStartSN
             packetsExpected == U32(expected)
             lost == Lost32(now.packetsLost - then.packetsLost)
             packetsLost == IF lost > packetsExpected THEN packetsExpected ELSE lost
             maxJitter == then.maxJitter - then.maxJitterFeed
         IN  IF now = <<>> \/ then = <<>> THEN [s |-> u.s, info |-> <<>>]
             ELSE IF expected < 0 \/ packetsExpected > cNumSequenceNumbers
                     \/ packetsExpected = 0
             THEN [s |-> u.s, info |-> <<>>]
             ELSE [s |-> u.s,
                   info |->
                     [StartTime |-> then.startTime,
                      EndTime |-> now.startTime,
                      Packets |-> U32(packetsExpected
                                        - U32(now.packetsPadding - then.packetsPadding)),
                      Bytes |-> now.bytes - then.bytes,
                      HeaderBytes |-> now.headerBytes - then.headerBytes,
                      PacketsDuplicate |->
                          U32(now.packetsDuplicate - then.packetsDuplicate),
                      BytesDuplicate |-> now.bytesDuplicate - then.bytesDuplicate,
                      HeaderBytesDuplicate |->
                          now.headerBytesDuplicate - then.headerBytesDuplicate,
                      PacketsPadding |-> U32(now.packetsPadding - then.packetsPadding),
                      BytesPadding |-> now.bytesPadding - then.bytesPadding,
                      HeaderBytesPadding |->
                          now.headerBytesPadding - then.headerBytesPadding,
                      PacketsLost |-> packetsLost,
                      PacketsMissing |->
                          Lost32(now.packetsLostFeed - then.packetsLostFeed),
                      PacketsOutOfOrder |->
                          U32(now.packetsOutOfOrder - then.packetsOutOfOrder),
                      Frames |-> U32(now.frames - then.frames),
                      RttMax |-> then.maxRtt,
                      JitterMax |-> IF maxJitter < 0 THEN 0 ELSE maxJitter]]

\* the Update calls of a sender that return before anything is counted
SendIgnored(s, p) ==
    \/ s.endTime # 0
    \/ ~s.initialized /\ p.payloadSize = 0
    \/ s.initialized /\ p.payloadSize = 0 /\ ULt(p.extSequenceNumber, s.extStartSN)

\* ------------------------------------------------------------------------
\* The state machine: one stats object, a receiver or a sender, and the calls
\* its owner makes on it

VARIABLES
    kind,        \* "receiver" or "sender": the stats object of this run ("none": no object)
    script,      \* the wire sequence numbers to feed to a receiver, <<>>: any input
    reports,     \* the run is one with RTCP reports and few packets
    srScript,    \* the propagation delays, ms, of the sender reports to feed to
                 \* a receiver, 5 s apart, <<>>: any input
    r,           \* the RTPStatsReceiver
    s,           \* the RTPStatsSender
    clock,       \* the wall clock, ms
    n,           \* the number of calls made
    fed,         \* the wire sequence numbers of the receiver Update calls so far
    call,        \* the last call: its name and arguments
    ret,         \* what the last call returned
    pre,         \* the stats object before the last call
    call2,       \* the call before the last
    ret2,        \* what the call before the last returned
    pre2,        \* the stats object before the call before the last
    seen,        \* the extended sequence numbers of the packets handled so far
    preSeen,     \* seen, before the last call
    allInWindow, \* every handled packet was less than cHistorySize behind the highest
    clean,       \* every packet fed had a payload and followed the one before it
    tsMono,      \* no packet fed had an RTP timestamp behind the highest
    sent,        \* the packets and octets of the sender Update calls not ignored,
                 \* and how far the receiver reports have advanced extLastRRSN of
                 \* each sender snapshot since it was made or last read
    alone,       \* a receiver given the first packet and the sender reports of
                 \* r, and no other packet, with what its last call returned
    to,          \* the RTPStatsSender that Seed is called on, with s as from
    seedPc,      \* the statement of Seed that is next (0: Seed not called)
    fromBusy,    \* an operation of s is in progress: it holds the lock of s,
                 \* pre is s before it and s is s after it
    fromStates,  \* the states s has had between its operations
    dispatch     \* the AgentDispatchService: the calls its client has received
                 \* and the last operation with what it returned

vars == <<kind, script, reports, srScript, r, s, clock, n, fed, call, ret, pre, call2, ret2, pre2,
          seen, preSeen, allInWindow, clean, tsMono, sent, alone,
          to, seedPc, fromBusy, fromStates, dispatch>>

NoCall == [op |-> "none"]

NoneSent == [packets |-> 0, octets |-> 0, advance |-> <<>>]

\* a packet as the arguments of Update: media, media with the marker set
\* (the last packet of a frame), or padding only
Packet(time, sn, ts, k) ==
    [packetTime |-> time, sequenceNumber |-> sn, timestamp |-> ts,
     marker |-> k = "marker", hdrSize |-> 12,
     payloadSize |-> IF k = "padding" THEN 0 ELSE 100,
     paddingSize |-> IF k = "padding" THEN 50 ELSE 0]

\* the packets fed to a receiver, relative to its highest sequence number and
\* timestamp: the step in sequence number, in timestamp and in time
RecvShapes ==
    {[dsn |-> d, dts |-> 15, dt |-> 20, k |-> "media"] :
        d \in {-cHistorySize - 1, -cHistorySize, -cHistorySize + 1, -2, -1, 0, 1, 2,
               cHistorySize + 1}}
    \cup {[dsn |-> d, dts |-> 0, dt |-> 0, k |-> k] :
        d \in {-1, 0, 1}, k \in {"marker", "padding"}}
    \cup {[dsn |-> d, dts |-> -15, dt |-> 20, k |-> "media"] : d \in {-1, 0, 1}}
    \cup {[dsn |-> d, dts |-> t, dt |-> tsRolloverThreshold, k |-> "media"] :
        d \in {-1, 1}, t \in {-15, 15}}

\* the first packets of a stream
RecvFirst ==
    {Packet(clock + 20, f[1], f[2], k) :
        f \in {<<100, 1000>>, <<SnRange - 1, TsRange - 10>>, <<0, 1000>>},
        k \in {"media", "padding"}}

\* the packet of a script: its RTP timestamp follows its sequence number
ScriptPacket(sn) ==
    Packet(clock + 20, sn, 1000 + 15 * ((sn - script[1]) % SnRange), "media")

Scripts ==
    {<<1, 2, 3, 5, 6, 4>>, <<1, 2, 2, 3>>, <<SnRange - 2, SnRange - 1, 0, 1>>}

\* the packets of the runs with RTCP reports: in order, after a loss, late
ReportShapes ==
    {[dsn |-> d, dts |-> 15, dt |-> 20, k |-> "media"] : d \in {-1, 1, 2}}

\* the propagation delays of the scripted sender reports: a change of path
\* after a delay that is constant, after one that varies a little, and a
\* smaller change of path with a delay that varies, which the last report
\* confirms or not
SRScripts ==
    {<<20, 20, 20, 20, 20, 20, 120, 120, 120>>,
     <<20, 22, 20, 22, 20, 22, 120, 120, 120>>,
     <<20, 22, 20, 22, 20, 22, 45, 75, 55>>,
     <<20, 22, 20, 22, 20, 22, 55, 75, 55>>}

\* the calls a free-input run makes
CallBound == IF reports THEN MaxReportCalls ELSE MaxCalls

RecvInputs ==
    IF script # <<>>
    THEN IF Len(fed) < Len(script) THEN {ScriptPacket(script[Len(fed) + 1])} ELSE {}
    ELSE IF srScript # <<>>
    THEN IF n = 0 THEN {Packet(clock + 20, 100, 1000, "media")} ELSE {}
    ELSE IF n >= CallBound THEN {}
    ELSE IF ~r.initialized
    THEN IF reports THEN {Packet(clock + 20, 100, 1000, "media")} ELSE RecvFirst
    ELSE {Packet(clock + x.dt,
                 (GetHighest(r.sequenceNumber) + x.dsn) % SnRange,
                 (GetHighest(r.timestamp) + x.dts) % TsRange,
                 x.k) : x \in IF reports THEN ReportShapes ELSE RecvShapes}

\* the free-input calls other than Update are made in the runs without script
RecvFree == kind = "receiver" /\ script = <<>> /\ srScript = <<>> /\ n < CallBound

\* ------------------------------------------------------------------------
\* AgentDispatchService

\* the service as constructed: its client has received no call
NewAgentDispatchService ==
    [client |-> <<>>, before |-> <<>>, call |-> NoCall, result |-> "nil", err |-> "nil",
     n |-> 0]

\* Seed is not called in the run
NoSeed ==
    /\ to = NewRTPStatsSender
    /\ seedPc = 0
    /\ fromBusy = FALSE
    /\ fromStates = {}

Init ==
    /\ kind \in {"receiver", "sender"}
    /\ script \in (IF kind = "receiver" THEN Scripts \cup {<<>>} ELSE {<<>>})
    /\ reports \in (IF script = <<>> THEN BOOLEAN ELSE {FALSE})
    /\ srScript \in (IF reports /\ kind = "receiver" THEN SRScripts \cup {<<>>}
                                                     ELSE {<<>>})
    /\ r = NewRTPStatsReceiver
    /\ s = NewRTPStatsSender
    /\ clock = 1000
    /\ n = 0
    /\ fed = <<>>
    /\ call = NoCall
    /\ ret = NoCall
    /\ pre = IF kind = "receiver" THEN NewRTPStatsReceiver ELSE NewRTPStatsSender
    /\ call2 = NoCall
    /\ ret2 = NoCall
    /\ pre2 = pre
    /\ seen = {}
    /\ preSeen = {}
    /\ allInWindow = TRUE
    /\ clean = TRUE
    /\ tsMono = TRUE
    /\ sent = NoneSent
    /\ alone = [r |-> NewRTPStatsReceiver, ok |-> FALSE]
    /\ NoSeed
    /\ dispatch = NewAgentDispatchService

\* what every call records of the call before it
Recorded(c, result, before) ==
    /\ n' = n + 1
    /\ call' = c
    /\ ret' = result
    /\ pre' = before
    /\ call2' = call
    /\ ret2' = ret
    /\ pre2' = pre
    /\ preSeen' = seen
    /\ UNCHANGED <<kind, script, reports, srScript>>

\* a call on the one stats object of a run
Called(c, result, before) ==
    /\ Recorded(c, result, before)
    /\ UNCHANGED <<to, seedPc, fromBusy, fromStates, dispatch>>

Receiver_Update ==
    /\ kind = "receiver"
    /\ \E p \in RecvInputs :
         LET u == RecvUpdate(r, p)
             handled == ~u.flowState.IsNotHandled
             esn == u.flowState.ExtSequenceNumber
         IN  /\ r' = u.r
             /\ clock' = p.packetTime
             /\ fed' = Append(fed, p.sequenceNumber)
             /\ Called([op |-> "Update", p |-> p], u.flowState, r)
             /\ seen' = IF handled THEN seen \cup {esn} ELSE seen
             /\ allInWindow' = (allInWindow /\
                   (handled /\ r.initialized
                      => GetExtendedHighest(r.sequenceNumber) - esn < cHistorySize))
             /\ clean' = (clean /\ p.payloadSize > 0 /\
                   (fed # <<>> => p.sequenceNumber = (fed[Len(fed)] + 1) % SnRange))
             /\ tsMono' = (tsMono /\
                   (r.initialized
                      => (p.timestamp - GetHighest(r.timestamp)) % TsRange
                            <= TsRange \div 2))
             /\ alone' = IF reports /\ ~r.initialized /\ u.r.initialized
                         THEN [r |-> u.r, ok |-> FALSE] ELSE alone
             /\ UNCHANGED <<s, sent>>

Receiver_Stop ==
    /\ RecvFree
    /\ r.endTime = 0
    /\ r' = Stop(r, clock)
    /\ Called([op |-> "Stop"], NoCall, r)
    /\ UNCHANGED <<s, clock, fed, seen, allInWindow, clean, tsMono, sent, alone>>

Receiver_NewSnapshotId ==
    /\ RecvFree
    /\ Len(r.snapshots) < MaxSnapshots
    /\ r' = RecvNewSnapshotId(r)
    /\ Called([op |-> "NewSnapshotId"], NoCall, r)
    /\ UNCHANGED <<s, clock, fed, seen, allInWindow, clean, tsMono, sent, alone>>

\* a sender report as SetRtcpSenderReportData is given it: received at the
\* time at, sent the propagation delay pd before
SenderReportData(at, pd, rtpTimestamp) ==
    [NTPTimestamp |-> at - pd, RTPTimestamp |-> rtpTimestamp % TsRange,
     RTPTimestampExt |-> 0, At |-> at, AtAdjusted |-> 0,
     Packets |-> 0, Octets |-> 0]

\* the interval between two sender reports, ms, and a long one, in which the
\* RTP timestamp covers most of half its range
SRInterval == 5000
SRLongInterval == 40000000

\* the sender reports of a publisher: none, the first of a stream, the one
\* in step with the newest, one whose RTP timestamp is behind or far from
\* what the time passed makes expected, one older than the newest
SRInputs ==
    IF srScript # <<>>
    THEN IF n >= 1 /\ n <= Len(srScript)
         THEN {SenderReportData(clock + SRInterval, srScript[n],
                                IF r.srNewest = <<>> THEN 1000
                                ELSE r.srNewest.RTPTimestamp + ToRTP(SRInterval))}
         ELSE {}
    ELSE IF ~(reports /\ RecvFree) THEN {}
    ELSE IF r.srNewest = <<>>
    THEN {<<>>} \cup {SenderReportData(clock + SRInterval, 20, ts) :
                         ts \in {5, 1000, TsRange - 10}}
    ELSE LET step == ToRTP(clock + SRInterval - 20 - r.srNewest.NTPTimestamp)
             long == ToRTP(clock + SRLongInterval - 20 - r.srNewest.NTPTimestamp)
         IN  {<<>>, SenderReportData(clock + SRInterval,
                                     clock + SRInterval - r.srNewest.NTPTimestamp + 8,
                                     r.srNewest.RTPTimestamp + step),
                    SenderReportData(clock + SRLongInterval, 20,
                                     r.srNewest.RTPTimestamp + long)}
             \cup {SenderReportData(clock + SRInterval, 20,
                                     r.srNewest.RTPTimestamp + step + d) :
                      d \in {0, -step - 15, TsRange \div 4, -(TsRange \div 4)}}

Receiver_SetRtcpSenderReportData ==
    /\ kind = "receiver"
    /\ \E srData \in SRInputs :
         LET now == IF srData = <<>> THEN clock + SRInterval ELSE srData.At
             u == SetRtcpSenderReportData(r, srData, now)
         IN  /\ r' = u.r
             /\ clock' = now
             /\ Called([op |-> "SetRtcpSenderReportData", srData |-> srData], u.ok, r)
             /\ alone' = LET a == SetRtcpSenderReportData(alone.r, srData, now)
                         IN  [r |-> a.r, ok |-> a.ok]
    /\ UNCHANGED <<s, fed, seen, allInWindow, clean, tsMono, sent>>

Receiver_GetRtcpReceptionReport ==
    /\ reports /\ RecvFree
    /\ \E snapshotID \in 1..Len(r.snapshots), proxyFracLost \in {0, 200} :
         \E u \in GetRtcpReceptionReport(r, proxyFracLost, snapshotID, clock + 10) :
             /\ r' = u.r
             /\ Called([op |-> "GetRtcpReceptionReport", snapshotID |-> snapshotID,
                        proxyFracLost |-> proxyFracLost], u.rr, r)
    /\ clock' = clock + 10
    /\ UNCHANGED <<s, fed, seen, allInWindow, clean, tsMono, sent, alone>>

\* the packets forwarded through a sender, relative to its highest extended
\* sequence number and timestamp
SendShapes ==
    {[dsn |-> d, dts |-> 15, dt |-> 20, k |-> "media"] :
        d \in {-cSnInfoSize - 1, -cSnInfoSize, -1, 0, 1, 2, cSnInfoSize + 1}}
    \cup {[dsn |-> d, dts |-> 0, dt |-> 0, k |-> "padding"] : d \in {-1, 1}}
    \cup {[dsn |-> 1, dts |-> 0, dt |-> 0, k |-> "marker"],
          [dsn |-> 1, dts |-> -15, dt |-> 20, k |-> "media"]}

SendPacket(time, extSN, extTS, k) ==
    [packetTime |-> time, extSequenceNumber |-> extSN, extTimestamp |-> extTS,
     marker |-> k = "marker", hdrSize |-> 12,
     payloadSize |-> IF k = "padding" THEN 0 ELSE 100,
     paddingSize |-> IF k = "padding" THEN 50 ELSE 0]

\* the packets of the runs with RTCP reports: in order, after a loss, after
\* more packets than the ring holds, after more than a receiver report may
\* cover, and one that was sent two packets before the highest
ReportSendShapes ==
    {[dsn |-> d, dts |-> 15, dt |-> 20, k |-> "media"] : d \in {1, 2, cSnInfoSize + 1, 2^15 + 2}}
    \cup {[dsn |-> -2, dts |-> -30, dt |-> 20, k |-> "media"]}

\* the calls a run with RTCP reports starts with
SenderPrelude == <<"NewSenderSnapshotId", "NewSenderSnapshotId", "Update">>

\* the call of the prelude that is due
SendDue(op) ==
    kind = "sender" /\ reports /\ n < Len(SenderPrelude) /\ SenderPrelude[n + 1] = op

\* the calls a sender is free to make
SendFree ==
    /\ kind = "sender"
    /\ IF reports THEN n >= Len(SenderPrelude) /\ n < Len(SenderPrelude) + MaxReportCalls
                  ELSE n < MaxCalls

SendInputs ==
    IF SendDue("Update") THEN {SendPacket(clock + 20, SnRange + 4464, 1000000, "media")}
    ELSE IF ~SendFree THEN {}
    ELSE IF ~s.initialized
    THEN {SendPacket(clock + 20, SnRange + 4464, 1000000, k) : k \in {"media", "padding"}}
    ELSE {SendPacket(clock + x.dt, s.extHighestSN + x.dsn, s.extHighestTS + x.dts, x.k) :
            x \in IF reports THEN ReportSendShapes ELSE SendShapes}

\* the receiver reports of the remote end: the highest sequence number it
\* received counts the cycles from the start of the stream
ReceiverReports ==
    {[LastSequenceNumber |-> l, TotalLost |-> j[1], Jitter |-> j[2],
      LastSenderReport |-> j[3], Delay |-> 10] :
        l \in {x \in {s.extHighestSN - (s.extStartSN - (s.extStartSN % SnRange)) - k :
                        k \in {0, 1}}
                     \cup (IF reports THEN {}
                          ELSE {(s.extStartSN % SnRange) - 1, s.extStartSN % SnRange}) :
                 x >= 0},
        j \in (IF reports THEN {} ELSE {<<0, 0, 0>>})
               \cup {<<1, 5, IF s.srNewest = <<>> THEN 0 ELSE s.srNewest.NTPTimestamp>>}}

\* the sender report data of the publisher, as the receiver side keeps it
PublisherSRData ==
    [NTPTimestamp |-> clock - 5, RTPTimestamp |-> s.extHighestTS % TsRange,
     RTPTimestampExt |-> s.extHighestTS, At |-> clock - 5, AtAdjusted |-> clock - 5,
     Packets |-> 0, Octets |-> 0]

Sender_Update ==
    /\ kind = "sender"
    /\ \E p \in SendInputs :
         /\ s' = SendUpdate(s, p)
         /\ clock' = p.packetTime
         /\ Called([op |-> "Update", p |-> p], NoCall, s)
         /\ sent' = IF SendIgnored(s, p) THEN sent
                    ELSE [sent EXCEPT
                            !.packets = @ + 1,
                            !.octets = @ + p.hdrSize + p.payloadSize + p.paddingSize]
         /\ seen' = IF SendIgnored(s, p) THEN seen
                    ELSE seen \cup {p.extSequenceNumber}
    /\ UNCHANGED <<r, fed, allInWindow, clean, tsMono, alone>>

Sender_UpdateFromReceiverReport ==
    /\ SendFree
    /\ \E rr \in ReceiverReports :
         LET u == UpdateFromReceiverReport(s, rr, clock + 10)
         IN  /\ s' = u.s
             /\ Called([op |-> "UpdateFromReceiverReport", rr |-> rr],
                       [rtt |-> u.rtt, isRttChanged |-> u.isRttChanged], s)
             /\ sent' = [sent EXCEPT !.advance = [i \in DOMAIN @ |->
                             @[i] + (u.s.senderSnapshots[i].extLastRRSN
                                       - s.senderSnapshots[i].extLastRRSN)]]
    /\ clock' = clock + 10
    /\ UNCHANGED <<r, fed, seen, allInWindow, clean, tsMono, alone>>

\* the offsets of the RTP timestamps of a forwarded stream, in units of 128
\* ticks
TsOffsets == {0, 5}

Sender_GetRtcpSenderReport ==
    /\ SendFree /\ ~reports
    /\ \E sr \in {<<>>, PublisherSRData}, passThrough \in BOOLEAN,
          tsOffset \in TsOffsets :
         LET u == GetRtcpSenderReport(s, sr, tsOffset, passThrough, clock + 10)
         IN  /\ sr = <<>> => ~passThrough /\ tsOffset = 0
             /\ s' = u.s
             /\ Called([op |-> "GetRtcpSenderReport", publisherSRData |-> sr,
                        tsOffset |-> tsOffset, passThrough |-> passThrough], u.sr, s)
    /\ clock' = clock + 10
    /\ UNCHANGED <<r, fed, seen, allInWindow, clean, tsMono, sent, alone>>

Sender_DeltaInfoSender ==
    /\ SendFree
    /\ \E senderSnapshotID \in 1..Len(s.senderSnapshots) :
         LET u == DeltaInfoSender(s, senderSnapshotID)
         IN  /\ s' = u.s
             /\ Called([op |-> "DeltaInfoSender",
                        senderSnapshotID |-> senderSnapshotID], u.info, s)
             /\ sent' = IF s.initialized /\ s.lastRRTime # 0
                        THEN [sent EXCEPT !.advance[senderSnapshotID] = 0]
                        ELSE sent
    /\ UNCHANGED <<r, clock, fed, seen, allInWindow, clean, tsMono, alone>>

Sender_Stop ==
    /\ SendFree /\ ~reports
    /\ s.endTime = 0
    /\ s' = Stop(s, clock)
    /\ Called([op |-> "Stop"], NoCall, s)
    /\ UNCHANGED <<r, clock, fed, seen, allInWindow, clean, tsMono, sent, alone>>

Sender_NewSnapshotId ==
    /\ SendFree /\ ~reports
    /\ Len(s.snapshots) < MaxSnapshots
    /\ s' = SendNewSnapshotId(s, clock)
    /\ Called([op |-> "NewSnapshotId"], NoCall, s)
    /\ UNCHANGED <<r, clock, fed, seen, allInWindow, clean, tsMono, sent, alone>>

Sender_NewSenderSnapshotId ==
    /\ \/ SendFree /\ ~reports /\ Len(s.senderSnapshots) < MaxSnapshots
       \/ SendDue("NewSenderSnapshotId")
    /\ s' = NewSenderSnapshotId(s, clock)
    /\ Called([op |-> "NewSenderSnapshotId"], NoCall, s)
    /\ sent' = [sent EXCEPT !.advance = Append(@, 0)]
    /\ UNCHANGED <<r, clock, fed, seen, allInWindow, clean, tsMono, alone>>

Next ==
    \/ Receiver_Update
    \/ Receiver_Stop
    \/ Receiver_NewSnapshotId
    \/ Receiver_SetRtcpSenderReportData
    \/ Receiver_GetRtcpReceptionReport
    \/ Sender_Update
    \/ Sender_UpdateFromReceiverReport
    \/ Sender_GetRtcpSenderReport
    \/ Sender_DeltaInfoSender
    \/ Sender_Stop
    \/ Sender_NewSnapshotId
    \/ Sender_NewSenderSnapshotId

Spec == Init /\ [][Next]_vars

\* ------------------------------------------------------------------------
\* The fraction lost of GetRtcpReceptionReport as a function of the packets
\* lost and expected in an interval and of the proxied fraction

InitFractionLost ==
    /\ kind = "none"
    /\ script = <<>>
    /\ reports = FALSE
    /\ srScript = <<>>
    /\ r = NewRTPStatsReceiver
    /\ s = NewRTPStatsSender
    /\ clock = 1000
    /\ n = 0
    /\ fed = <<>>
    /\ call = NoCall
    /\ ret = NoCall
    /\ pre = NewRTPStatsReceiver
    /\ call2 = NoCall
    /\ ret2 = NoCall
    /\ pre2 = pre
    /\ seen = {}
    /\ preSeen = {}
    /\ allInWindow = TRUE
    /\ clean = TRUE
    /\ tsMono = TRUE
    /\ sent = NoneSent
    /\ alone = [r |-> NewRTPStatsReceiver, ok |-> FALSE]
    /\ NoSeed
    /\ dispatch = NewAgentDispatchService

FractionLost_Apply ==
    /\ kind = "none" /\ n = 0
    /\ \E packetsExpected \in 1..MaxExpected, proxyFracLost \in {0, 200} :
         \E packetsLost \in 0..packetsExpected :
           \E f \in FractionLost(packetsLost, packetsExpected, proxyFracLost) :
             Called([op |-> "FractionLost", packetsLost |-> packetsLost,
                     packetsExpected |-> packetsExpected,
                     proxyFracLost |-> proxyFracLost], f, r)
    /\ UNCHANGED <<r, s, clock, fed, seen, allInWindow, clean, tsMono, sent, alone>>

NextFractionLost == FractionLost_Apply

SpecFractionLost == InitFractionLost /\ [][NextFractionLost]_vars

\* ------------------------------------------------------------------------
\* AgentDispatchService: the operations, called with any context and request

\* the number of operations called on the service
MaxDispatchCalls == 2

DispatchRooms == {"a", "b"}

\* the grants of a context: none, or the video grants of its token
DispatchContexts == {<<>>} \cup [RoomAdmin : BOOLEAN, Room : DispatchRooms]

DispatchRequests == [Room : DispatchRooms]

\* EnsureAdminPermission: the error it returns
EnsureAdminPermission(ctx, room) ==
    IF ctx = <<>> THEN "ErrPermissionDenied"
    ELSE IF ~ctx.RoomAdmin \/ room # ctx.Room THEN "ErrPermissionDenied"
    ELSE "nil"

twirpAuthError(err) == [code |-> "unauthenticated", msg |-> err]

\* topicFormatter.RoomTopic
RoomTopic(ctx, room) == <<"room", room>>

\* what the internal client answers to a call: a result, or an error of its own
ClientResponses(result) ==
    {[result |-> result, err |-> "nil"], [result |-> "nil", err |-> "rpc"]}

\* the body the three operations share: what the client has received after
\* the operation, and what the operation returns
Forwarded(ag, op, ctx, req, result) ==
    {[client |-> Append(ag.client, [op |-> op, topic |-> RoomTopic(ctx, req.Room),
                                    req |-> req]),
      result |-> x.result, err |-> x.err] : x \in ClientResponses(result)}

Denied(ag, err) == {[client |-> ag.client, result |-> "nil", err |-> twirpAuthError(err)]}

\* a faulty CreateDispatch: the request is forwarded whatever the permission
CreateDispatchUnchecked(ag, ctx, req) ==
    Forwarded(ag, "CreateDispatch", ctx, req, "AgentDispatch")

CreateDispatch(ag, ctx, req) ==
    LET err == EnsureAdminPermission(ctx, req.Room)
    IN  IF err # "nil" THEN Denied(ag, err)
        ELSE Forwarded(ag, "CreateDispatch", ctx, req, "AgentDispatch")

DeleteDispatch(ag, ctx, req) ==
    LET err == EnsureAdminPermission(ctx, req.Room)
    IN  IF err # "nil" THEN Denied(ag, err)
        ELSE Forwarded(ag, "DeleteDispatch", ctx, req, "AgentDispatch")

ListDispatch(ag, ctx, req) ==
    LET err == EnsureAdminPermission(ctx, req.Room)
    IN  IF err # "nil" THEN Denied(ag, err)
        ELSE Forwarded(ag, "ListDispatch", ctx, req, "ListAgentDispatchResponse")

InitDispatch ==
    /\ kind = "dispatch"
    /\ script = <<>>
    /\ reports = FALSE
    /\ srScript = <<>>
    /\ r = NewRTPStatsReceiver
    /\ s = NewRTPStatsSender
    /\ clock = 1000
    /\ n = 0
    /\ fed = <<>>
    /\ call = NoCall
    /\ ret = NoCall
    /\ pre = NewRTPStatsReceiver
    /\ call2 = NoCall
    /\ ret2 = NoCall
    /\ pre2 = pre
    /\ seen = {}
    /\ preSeen = {}
    /\ allInWindow = TRUE
    /\ clean = TRUE
    /\ tsMono = TRUE
    /\ sent = NoneSent
    /\ alone = [r |-> NewRTPStatsReceiver, ok |-> FALSE]
    /\ NoSeed
    /\ dispatch = NewAgentDispatchService

\* the service after an operation op called with ctx and req that ends as u
Dispatched(op, ctx, req, u) ==
    /\ kind = "dispatch" /\ dispatch.n < MaxDispatchCalls
    /\ dispatch' = [client |-> u.client, before |-> dispatch.client,
                    call |-> [op |-> op, ctx |-> ctx, req |-> req],
                    result |-> u.result, err |-> u.err, n |-> dispatch.n + 1]
    /\ UNCHANGED <<kind, script, reports, srScript, r, s, clock, n, fed, call, ret, pre,
                   call2, ret2, pre2, seen, preSeen, allInWindow, clean, tsMono, sent,
                   alone, to, seedPc, fromBusy, fromStates>>

Dispatch_CreateDispatch ==
    \E ctx \in DispatchContexts, req \in DispatchRequests :
        \E u \in CreateDispatch(dispatch, ctx, req) :
            Dispatched("CreateDispatch", ctx, req, u)

Dispatch_DeleteDispatch ==
    \E ctx \in DispatchContexts, req \in DispatchRequests :
        \E u \in DeleteDispatch(dispatch, ctx, req) :
            Dispatched("DeleteDispatch", ctx, req, u)

Dispatch_ListDispatch ==
    \E ctx \in DispatchContexts, req \in DispatchRequests :
        \E u \in ListDispatch(dispatch, ctx, req) :
            Dispatched("ListDispatch", ctx, req, u)

NextDispatch ==
    \/ Dispatch_CreateDispatch
    \/ Dispatch_DeleteDispatch
    \/ Dispatch_ListDispatch

SpecDispatch == InitDispatch /\ [][NextDispatch]_vars

\* ------------------------------------------------------------------------
\* RTPStatsSender.Seed, called on the sender `to` with the sender s as from
\* while another thread calls operations of s.  Seed holds the lock of `to`
\* and not that of s: its statements run between and during the operations
\* of s, and a field it reads while an operation of s is in progress has the
\* value from before the operation or the one from after it.

\* the number of operations called on s
MaxFromCalls == 3

\* the statements of Seed after the call of seed, by the field each copies
SeedFields ==
    <<"extStartSN", "extHighestSN", "extHighestSNFromRR", "lastRRTime", "lastRR",
      "extStartTS", "extHighestTS", "packetsLostFromRR", "jitterFromRR",
      "maxJitterFromRR", "snInfos", "senderSnapshots">>

SeedReturned == Len(SeedFields) + 1

\* rtpStatsBase.seed: nothing is copied from a stats object not initialized
seed(b, from) ==
    IF ~from.initialized THEN [ok |-> FALSE, b |-> b]
    ELSE [ok |-> TRUE,
          b |-> [f \in DOMAIN b |-> IF f \in DOMAIN BaseFields THEN from[f] ELSE b[f]]]

\* what a statement of Seed may find s to be
SeedSources == IF fromBusy THEN {pre, s} ELSE {s}

InitSeed ==
    /\ kind = "seed"
    /\ script = <<>>
    /\ reports = FALSE
    /\ srScript = <<>>
    /\ r = NewRTPStatsReceiver
    /\ s = NewRTPStatsSender
    /\ clock = 1000
    /\ n = 0
    /\ fed = <<>>
    /\ call = NoCall
    /\ ret = NoCall
    /\ pre = NewRTPStatsSender
    /\ call2 = NoCall
    /\ ret2 = NoCall
    /\ pre2 = pre
    /\ seen = {}
    /\ preSeen = {}
    /\ allInWindow = TRUE
    /\ clean = TRUE
    /\ tsMono = TRUE
    /\ sent = NoneSent
    /\ alone = [r |-> NewRTPStatsReceiver, ok |-> FALSE]
    /\ to = NewRTPStatsSender
    /\ seedPc = 0
    /\ fromBusy = FALSE
    /\ fromStates = {NewRTPStatsSender}
    /\ dispatch = NewAgentDispatchService

\* Seed, to the return of seed: the lock of `to` is taken and the base copied
Seed_Begin ==
    /\ kind = "seed" /\ seedPc = 0
    /\ \E from \in SeedSources :
         LET u == seed(to, from)
         IN  /\ to' = u.b
             /\ seedPc' = IF u.ok THEN 1 ELSE SeedReturned
    /\ UNCHANGED <<kind, script, reports, srScript, r, s, clock, n, fed, call, ret, pre,
                   call2, ret2, pre2, seen, preSeen, allInWindow, clean, tsMono, sent,
                   alone, fromBusy, fromStates, dispatch>>

\* one statement of Seed: a field of s is copied
Seed_Copy ==
    /\ kind = "seed" /\ seedPc \in 1..Len(SeedFields)
    /\ \E from \in SeedSources :
         to' = [to EXCEPT ![SeedFields[seedPc]] = from[SeedFields[seedPc]]]
    /\ seedPc' = seedPc + 1
    /\ UNCHANGED <<kind, script, reports, srScript, r, s, clock, n, fed, call, ret, pre,
                   call2, ret2, pre2, seen, preSeen, allInWindow, clean, tsMono, sent,
                   alone, fromBusy, fromStates, dispatch>>

\* an operation of s may be called
FromFree == kind = "seed" /\ ~fromBusy /\ n < MaxFromCalls

\* the packets sent through s: the first, then one in order and one that was
\* sent two packets before the highest
FromInputs ==
    IF ~s.initialized THEN {SendPacket(clock + 20, SnRange + 4464, 1000000, "media")}
    ELSE {SendPacket(clock + 20, s.extHighestSN + x[1], s.extHighestTS + x[2], "media") :
            x \in {<<1, 15>>, <<-2, -30>>}}

\* the receiver report of the remote end: it has the highest packet
FromReceiverReports ==
    {[LastSequenceNumber |-> s.extHighestSN - (s.extStartSN - (s.extStartSN % SnRange)),
      TotalLost |-> 1, Jitter |-> 5, LastSenderReport |-> 0, Delay |-> 10]}

From_Update ==
    /\ FromFree
    /\ \E p \in FromInputs :
         /\ s' = SendUpdate(s, p)
         /\ clock' = p.packetTime
         /\ Recorded([op |-> "Update", p |-> p], NoCall, s)
    /\ fromBusy' = TRUE
    /\ UNCHANGED <<r, fed, seen, allInWindow, clean, tsMono, sent, alone,
                   to, seedPc, fromStates, dispatch>>

From_UpdateFromReceiverReport ==
    /\ FromFree
    /\ \E rr \in FromReceiverReports :
         LET u == UpdateFromReceiverReport(s, rr, clock + 10)
         IN  /\ s' = u.s
             /\ Recorded([op |-> "UpdateFromReceiverReport", rr |-> rr],
                         [rtt |-> u.rtt, isRttChanged |-> u.isRttChanged], s)
    /\ clock' = clock + 10
    /\ fromBusy' = TRUE
    /\ UNCHANGED <<r, fed, seen, allInWindow, clean, tsMono, sent, alone,
                   to, seedPc, fromStates, dispatch>>

From_NewSenderSnapshotId ==
    /\ FromFree /\ Len(s.senderSnapshots) < MaxSnapshots
    /\ s' = NewSenderSnapshotId(s, clock)
    /\ Recorded([op |-> "NewSenderSnapshotId"], NoCall, s)
    /\ fromBusy' = TRUE
    /\ UNCHANGED <<r, clock, fed, seen, allInWindow, clean, tsMono, sent, alone,
                   to, seedPc, fromStates, dispatch>>

\* the operation of s in progress returns and gives up the lock of s
From_Return ==
    /\ kind = "seed" /\ fromBusy
    /\ fromBusy' = FALSE
    /\ fromStates' = fromStates \cup {s}
    /\ UNCHANGED <<kind, script, reports, srScript, r, s, clock, n, fed, call, ret, pre,
                   call2, ret2, pre2, seen, preSeen, allInWindow, clean, tsMono, sent,
                   alone, to, seedPc, dispatch>>

NextSeed ==
    \/ Seed_Begin
    \/ Seed_Copy
    \/ From_Update
    \/ From_UpdateFromReceiverReport
    \/ From_NewSenderSnapshotId
    \/ From_Return

SpecSeed == InitSeed /\ [][NextSeed]_vars

\* ------------------------------------------------------------------------
\* Properties

\* the extended highest sequence number of a receiver
RecvHighest(x) == GetExtendedHighest(x.sequenceNumber)

RecvUpdated == kind = "receiver" /\ call.op = "Update"
SendUpdated == kind = "sender" /\ call.op = "Update"

\* C1: across every call on an initialized stats object the extended highest
\* sequence number does not decrease; on the sender the extended start does
\* not increase either, and after every Update the start is at most the highest.
C1_HighestNeverDecreases ==
    /\ kind = "receiver" /\ call.op # "none" /\ pre.initialized
         => ULe(RecvHighest(pre), RecvHighest(r))
    /\ kind = "sender" /\ call.op # "none" /\ pre.initialized
         => ULe(pre.extHighestSN, s.extHighestSN) /\ ULe(s.extStartSN, pre.extStartSN)
    /\ SendUpdated => ULe(s.extStartSN, s.extHighestSN)

\* a sender Update lowered the start of the stream
C1_Witness ==
    /\ SendUpdated /\ pre.initialized
    /\ ULt(s.extStartSN, pre.extStartSN)
    /\ s.extHighestSN = pre.extHighestSN

\* the extended sequence numbers from the start to the highest of the
\* receiver that no handled packet carried
Missing ==
    (RecvHighest(r) - GetExtendedStart(r.sequenceNumber) + 1)
      - Cardinality({e \in seen : /\ e >= GetExtendedStart(r.sequenceNumber)
                                  /\ e <= RecvHighest(r)})

\* C2: in a receiver all of whose handled packets arrived less than cHistorySize
\* behind the highest, packetsLost is the number of extended sequence numbers
\* from the start to the highest that no packet was accounted for; it is never
\* below zero and never above the length of that range.
C2_PacketsLostIsMissing ==
    kind = "receiver" /\ r.initialized /\ allInWindow
      => /\ r.packetsLost = Missing
         /\ r.packetsLost >= 0
         /\ r.packetsLost <= RecvHighest(r) - GetExtendedStart(r.sequenceNumber) + 1

\* the flow state and counters of a stream without loss and reordering
C3_InOrder ==
    /\ ~ret.IsNotHandled /\ ~ret.HasLoss /\ ~ret.IsDuplicate /\ ~ret.IsOutOfOrder
    /\ call2.op = "Update" => ret.ExtSequenceNumber = ret2.ExtSequenceNumber + 1
    /\ r.packetsLost = 0 /\ r.packetsOutOfOrder = 0 /\ r.packetsDuplicate = 0

\* C3 as stated: every Update of a stream in which each packet has a payload
\* and the wire sequence number after the one before it returns the extended
\* sequence number after the one before it, reports no loss, duplicate or
\* reordering, and leaves packetsLost, packetsOutOfOrder and packetsDuplicate 0.
C3_AsStated == RecvUpdated /\ clean => C3_InOrder

\* C3: the same, for a receiver that is not stopped and a stream in which no
\* packet has an RTP timestamp behind the highest one received.
C3_InOrderNoLoss == RecvUpdated /\ clean /\ tsMono /\ pre.endTime = 0 => C3_InOrder

\* the fourth packet of 65534, 65535, 0, 1
C3_Witness ==
    /\ RecvUpdated /\ clean /\ tsMono
    /\ fed = <<SnRange - 2, SnRange - 1, 0, 1>>
    /\ ret.ExtSequenceNumber = SnRange + 1

\* the last Update advanced the extended highest sequence number
Advanced ==
    /\ RecvUpdated
    /\ \/ ~pre.initialized /\ r.initialized
       \/ pre.initialized /\ ULt(RecvHighest(pre), RecvHighest(r))

\* C4: after a receiver Update that advanced the extended highest sequence
\* number, the low 16 bits of the extended sequence number returned and of the
\* extended highest are the wire sequence number of the packet.
C4_LowBitsAreWireSN ==
    Advanced => /\ ret.ExtSequenceNumber % SnRange = call.p.sequenceNumber
                /\ RecvHighest(r) % SnRange = call.p.sequenceNumber

\* the extended sequence number the last receiver Update gave its packet
lastESN == ret.ExtSequenceNumber

\* the last receiver Update handled a packet behind the highest or at it
Behind == RecvUpdated /\ pre.initialized /\ ~ret.IsNotHandled /\ lastESN <= RecvHighest(pre)

\* the size of a packet
PktSize(p) == p.hdrSize + p.payloadSize + p.paddingSize

\* C5: a packet whose extended sequence number is below the highest, less than
\* cHistorySize behind it, and whose history bit is clear: packetsLost goes
\* down by 1, packetsOutOfOrder up by 1, the bit is set, the flow state has
\* IsOutOfOrder and not IsDuplicate, and packetsDuplicate stays.  Of 1, 2, 3,
\* 5, 6, 4: packetsLost is 1 after 5, and after 4 it is 0, with 1 out of order.
C5_LateArrival ==
    /\ Behind /\ lastESN < RecvHighest(pre) /\ RecvHighest(pre) - lastESN < cHistorySize
         /\ ~BitmapIsSet(pre.history, lastESN)
         => /\ r.packetsLost = pre.packetsLost - 1
            /\ r.packetsOutOfOrder = pre.packetsOutOfOrder + 1
            /\ BitmapIsSet(r.history, lastESN)
            /\ ret.IsOutOfOrder /\ ~ret.IsDuplicate
            /\ r.packetsDuplicate = pre.packetsDuplicate
    /\ fed = <<1, 2, 3, 5>> => r.packetsLost = 1
    /\ fed = <<1, 2, 3, 5, 6, 4>>
         => r.packetsLost = 0 /\ r.packetsOutOfOrder = 1 /\ r.packetsDuplicate = 0

\* the 4 of 1, 2, 3, 5, 6, 4 has arrived
C5_Witness ==
    /\ fed = <<1, 2, 3, 5, 6, 4>>
    /\ Behind /\ lastESN = 4 /\ ~BitmapIsSet(pre.history, lastESN) /\ pre.packetsLost = 1

\* C6: a packet whose extended sequence number has been accounted and is less
\* than cHistorySize behind the highest is a duplicate: the flow state has
\* IsDuplicate, packetsDuplicate and bytesDuplicate grow by the packet, and
\* packetsLost, bytes, packetsPadding and frames stay.
C6_Duplicate ==
    Behind /\ lastESN \in preSeen /\ RecvHighest(pre) - lastESN < cHistorySize
      => /\ ret.IsDuplicate
         /\ r.packetsDuplicate = pre.packetsDuplicate + 1
         /\ r.bytesDuplicate = pre.bytesDuplicate + PktSize(call.p)
         /\ r.packetsLost = pre.packetsLost
         /\ r.bytes = pre.bytes
         /\ r.packetsPadding = pre.packetsPadding
         /\ r.frames = pre.frames

\* the same packet fed twice: one primary and one duplicate
C6_Witness ==
    /\ Behind /\ call2.op = "Update" /\ call.p = call2.p
    /\ ~ret2.IsNotHandled /\ ~ret2.IsDuplicate /\ ret.IsDuplicate
    /\ r.packetsDuplicate = 1 /\ r.frames = 1

\* C7 as stated: of 1, 2, 2, 3, after the second 2 packetsDuplicate is 1 and
\* packetsOutOfOrder is 1.
C7_AsStated ==
    fed = <<1, 2, 2>> => r.packetsDuplicate = 1 /\ r.packetsOutOfOrder = 1

\* C7: of 1, 2, 2, 3, after the second 2 packetsDuplicate is 1 and
\* packetsOutOfOrder is 0: the repeat of the highest is flagged IsOutOfOrder
\* in the flow state and not counted out of order.
C7_DuplicateOfHighest ==
    fed = <<1, 2, 2>>
      => /\ r.packetsDuplicate = 1 /\ r.packetsOutOfOrder = 0
         /\ ret.IsDuplicate /\ ret.IsOutOfOrder

\* the second 2 of 1, 2, 2, 3 has arrived
C7_Witness == fed = <<1, 2, 2>> /\ RecvHighest(r) = 2 /\ lastESN = 2

\* the counters that C8 compares
Counters(x) ==
    <<x.packetsLost, x.packetsDuplicate, x.packetsPadding, x.bytes, x.headerBytes,
      x.frames>>

\* the last two calls fed a receiver two packets of adjacent sequence numbers,
\* the lower one first, of the same sizes and marker
AdjacentPair ==
    /\ RecvUpdated /\ call2.op = "Update"
    /\ call.p.sequenceNumber = (call2.p.sequenceNumber + 1) % SnRange
    /\ call.p.marker = call2.p.marker
    /\ call.p.hdrSize = call2.p.hdrSize
    /\ call.p.payloadSize = call2.p.payloadSize
    /\ call.p.paddingSize = call2.p.paddingSize

\* the two packets in the other order of arrival: the higher one at the time
\* the lower one arrived, then the lower one
SwappedFirst == RecvUpdate(pre2, [call.p EXCEPT !.packetTime = call2.p.packetTime])
SwappedSecond ==
    RecvUpdate(SwappedFirst.r, [call2.p EXCEPT !.packetTime = call.p.packetTime])

\* a packet was handled less than cHistorySize behind the highest before it
InWindow(flowState, before) ==
    /\ ~flowState.IsNotHandled
    /\ before.initialized
         => RecvHighest(before) - flowState.ExtSequenceNumber < cHistorySize

\* C8 as stated: two packets of adjacent sequence numbers, of the same sizes
\* and marker and both in the history window, leave packetsLost,
\* packetsDuplicate, packetsPadding, bytes, headerBytes and frames the same
\* in either order of arrival.
C8_AsStated ==
    AdjacentPair /\ InWindow(ret2, pre2) /\ InWindow(ret, pre)
      => Counters(SwappedSecond.r) = Counters(r)

\* C8: the same, for two packets that are handled in either order, and given
\* the same extended sequence numbers in both.
C8_SwapAdjacent ==
    /\ AdjacentPair /\ InWindow(ret2, pre2) /\ InWindow(ret, pre)
    /\ InWindow(SwappedFirst.flowState, pre2)
    /\ InWindow(SwappedSecond.flowState, SwappedFirst.r)
    /\ SwappedFirst.flowState.ExtSequenceNumber = ret.ExtSequenceNumber
    /\ SwappedSecond.flowState.ExtSequenceNumber = ret2.ExtSequenceNumber
    => Counters(SwappedSecond.r) = Counters(r)

\* two packets after the highest: in the other order the lower one is late
C8_Witness ==
    /\ AdjacentPair /\ pre2.initialized
    /\ ~ret2.IsNotHandled /\ ~ret.IsNotHandled
    /\ ret2.ExtSequenceNumber = RecvHighest(pre2) + 1
    /\ SwappedFirst.flowState.ExtSequenceNumber = ret.ExtSequenceNumber
    /\ SwappedFirst.flowState.HasLoss
    /\ SwappedSecond.flowState.ExtSequenceNumber = ret2.ExtSequenceNumber
    /\ SwappedSecond.r.packetsOutOfOrder = r.packetsOutOfOrder + 1

\* C9: a packet whose extended sequence number is cHistorySize or more behind
\* the highest changes neither packetsLost nor packetsDuplicate nor any bit
\* of the history, whatever the bit at the index it shares is.
C9_BeyondHistory ==
    Behind /\ RecvHighest(pre) - lastESN >= cHistorySize
      => /\ r.packetsLost = pre.packetsLost
         /\ r.packetsDuplicate = pre.packetsDuplicate
         /\ r.history = pre.history

\* a packet exactly cHistorySize behind the highest: its index in the history
\* is that of the highest, which is set
C9_Witness ==
    /\ Behind /\ RecvHighest(pre) - lastESN = cHistorySize
    /\ BitmapIsSet(pre.history, lastESN)
    /\ ret.IsOutOfOrder

\* C10: after the end of the stream an Update of a receiver or of a sender and
\* an UpdateFromReceiverReport of a sender leave the stats object as it was,
\* and the Update of a receiver returns IsNotHandled.
C10_NoOpAfterEnd ==
    pre.endTime # 0 /\ call.op \in {"Update", "UpdateFromReceiverReport"}
      => /\ kind = "receiver" => r = pre /\ ret.IsNotHandled
         /\ kind = "sender" => s = pre

\* a receiver report that a running sender takes came after the end
C10_Witness ==
    /\ kind = "sender" /\ call.op = "UpdateFromReceiverReport"
    /\ pre.initialized /\ pre.endTime # 0
    /\ ReceiverReportApply(pre, call.rr, clock).s # pre

\* a call of a report generator: GetRtcpSenderReport on the sender,
\* GetRtcpReceptionReport on the receiver
Generated == call.op \in {"GetRtcpSenderReport", "GetRtcpReceptionReport"}

\* C11: once endTime is set every report generator returns nil:
\* GetRtcpSenderReport on the sender and GetRtcpReceptionReport on the receiver
\* emit no report, whatever publisher sender report, snapshot id or earlier
\* traffic they are called with.
C11_NoReportAfterEnd == Generated /\ pre.endTime # 0 => ret = <<>>

\* the stats object of the run
Obj == IF kind = "receiver" THEN r ELSE s

\* the extended start sequence number of the stream
ExtStartSN == IF kind = "receiver" THEN GetExtendedStart(r.sequenceNumber)
              ELSE s.extStartSN

\* the last call was an Update that found the object uninitialized
FirstUpdate == call.op = "Update" /\ ~pre.initialized

\* every snapshot allocated so far is anchored at the start of the stream
Reseeded ==
    /\ \A i \in DOMAIN Obj.snapshots :
          Obj.snapshots[i].isValid /\ Obj.snapshots[i].extStartSN = ExtStartSN
    /\ kind = "sender" =>
          \A i \in DOMAIN s.senderSnapshots :
            s.senderSnapshots[i].isValid /\ s.senderSnapshots[i].extStartSN = ExtStartSN

\* what C12 says of the calls on an object, stopped or not
InitializedAtFirstPayload(stoppedToo) ==
    /\ pre.initialized => Obj.initialized
    /\ ~pre.initialized /\ Obj.initialized => FirstUpdate /\ call.p.payloadSize > 0
    /\ FirstUpdate /\ call.p.payloadSize > 0 /\ (stoppedToo \/ pre.endTime = 0)
          => Obj.initialized /\ Reseeded
    /\ FirstUpdate /\ call.p.payloadSize = 0
          => Obj = pre /\ (kind = "receiver" => ret.IsNotHandled)

\* C12 as stated: the first Update with payloadSize > 0 initializes the object,
\* whether the stream was ended before it or not.
C12_AsStated == InitializedAtFirstPayload(TRUE)

\* C12: a stats object that has not been stopped becomes initialized exactly at
\* the first Update with payloadSize > 0 and never reverts; an Update with
\* payloadSize = 0 before that leaves the object as it was (the receiver
\* returns IsNotHandled), and the initializing Update anchors every snapshot
\* allocated before it at the extended start sequence number of the stream.
C12_Initialization == InitializedAtFirstPayload(FALSE)

\* a snapshot id is allocated, a padding only packet is dropped, and the
\* first packet with a payload starts the stream
C12_Witness ==
    /\ FirstUpdate /\ Obj.initialized /\ Len(Obj.snapshots) > 0 /\ Reseeded
    /\ call2.op = "Update" /\ call2.p.payloadSize = 0

\* C13: the receiver's Update reports HasLoss exactly when the packet is
\* handled, in order and more than 1 ahead of the extended highest sequence
\* number before it; the loss then runs from that highest + 1 (inclusive) to
\* the packet's ExtSequenceNumber (exclusive), and packetsLost grows by the
\* length of that range.
C13_HasLoss ==
    RecvUpdated =>
      LET gap == ret.ExtSequenceNumber - RecvHighest(pre) IN
        /\ ret.HasLoss <=> (~ret.IsNotHandled /\ pre.initialized /\ gap > 1)
        /\ ret.HasLoss =>
              /\ ret.LossStartInclusive = RecvHighest(pre) + 1
              /\ ret.LossEndExclusive = ret.ExtSequenceNumber
              /\ r.packetsLost
                   = pre.packetsLost + (ret.LossEndExclusive - ret.LossStartInclusive)

\* a packet 2 ahead of the highest: one sequence number is reported lost
C13_Witness ==
    /\ RecvUpdated /\ ret.HasLoss
    /\ ret.LossEndExclusive - ret.LossStartInclusive = 1
    /\ r.packetsLost = pre.packetsLost + 1

\* the last call was an Update of a started receiver with a packet that came
\* tsRolloverThreshold or more after highestTime, its 32 bit RTP timestamp
\* below the highest one
LateAndBelow ==
    /\ RecvUpdated /\ pre.initialized
    /\ call.p.packetTime - pre.highestTime >= tsRolloverThreshold
    /\ call.p.timestamp < GetHighest(pre.timestamp)

\* C14: when a packet arrives at least tsRolloverThreshold after highestTime
\* with a 32 bit RTP timestamp below the highest one, and the receiver handles
\* it, its extended timestamp is above the extended highest timestamp before
\* it: a roll over of the timestamp is forced.
C14_ForcedRollover ==
    LateAndBelow /\ ~ret.IsNotHandled
      => ret.ExtTimestamp > GetExtendedHighest(pre.timestamp)

\* such a packet, handled, one timestamp cycle after the packets before it
C14_Witness ==
    /\ LateAndBelow /\ ~ret.IsNotHandled
    /\ ret.ExtTimestamp = GetExtendedHighest(pre.timestamp) - 15 + TsRange
    /\ GetExtendedHighest(r.timestamp) = ret.ExtTimestamp

SRCalled == kind = "receiver" /\ call.op = "SetRtcpSenderReportData"

\* the sender reports kept and the propagation delay with the tracking of a
\* change of path
SRState(x) ==
    <<x.srFirst, x.srNewest, x.propagationDelay, x.longTermDeltaPropagationDelay,
      x.propagationDelayDeltaHighCount, x.propagationDelayDeltaHighStartTime,
      x.propagationDelaySpike>>

\* the report of the last call is older than the newest one kept: by its NTP
\* timestamp, or by its extended RTP timestamp
SROlder ==
    /\ call.srData # <<>> /\ pre.srNewest # <<>>
    /\ \/ call.srData.NTPTimestamp < pre.srNewest.NTPTimestamp
       \/ ULt(getExtendedSenderReport(pre, call.srData).RTPTimestampExt,
              pre.srNewest.RTPTimestampExt)

\* C15: SetRtcpSenderReportData returns false and leaves srFirst, srNewest,
\* the propagation delay, its long term delta and the tracking of a change of
\* path as they were when the report is nil, the receiver is not initialized,
\* or the report is older than srNewest by its NTP timestamp or by its
\* extended RTP timestamp; so the NTP timestamp and the extended RTP timestamp
\* of srNewest never decrease, whatever the call.
C15_OlderReportDropped ==
    /\ SRCalled /\ (call.srData = <<>> \/ ~pre.initialized \/ SROlder)
         => ret = FALSE /\ SRState(r) = SRState(pre)
    /\ kind = "receiver" /\ pre.srNewest # <<>>
         => /\ r.srNewest # <<>>
            /\ r.srNewest.NTPTimestamp >= pre.srNewest.NTPTimestamp
            /\ ULe(pre.srNewest.RTPTimestampExt, r.srNewest.RTPTimestampExt)

\* a report newer by its NTP timestamp and older by its RTP timestamp is
\* dropped after one that was taken
C15_Witness ==
    /\ SRCalled /\ SROlder /\ ret = FALSE
    /\ call.srData.NTPTimestamp > pre.srNewest.NTPTimestamp
    /\ call2.op = "SetRtcpSenderReportData" /\ ret2 = TRUE

\* a report older by its NTP timestamp is dropped
C15_WitnessNTP ==
    /\ SRCalled /\ ret = FALSE /\ pre.srNewest # <<>> /\ call.srData # <<>>
    /\ call.srData.NTPTimestamp < pre.srNewest.NTPTimestamp

\* the last call was a SetRtcpSenderReportData that took its report
SRTaken == SRCalled /\ ret = TRUE

\* C16: after every sender report the receiver takes, the low 32 bits of
\* srNewest.RTPTimestampExt are srNewest.RTPTimestamp; so it is of every
\* report as getExtendedSenderReport extends it, within the slack of the
\* expected timestamp or not, the fallback taking a cycle off or not.
C16_LowBitsAreRTPTimestamp ==
    /\ kind = "receiver" /\ r.srNewest # <<>>
         => r.srNewest.RTPTimestampExt % TsRange = r.srNewest.RTPTimestamp
    /\ SRCalled /\ call.srData # <<>>
         => getExtendedSenderReport(pre, call.srData).RTPTimestampExt % TsRange
              = call.srData.RTPTimestamp

\* a report taken by the fallback, one cycle after the newest
C16_Witness ==
    /\ SRTaken /\ pre.srNewest # <<>> /\ ~isInSlack(pre, call.srData)
    /\ TsCycles(r.srNewest.RTPTimestampExt)
         = TsCycles(pre.srNewest.RTPTimestampExt) + TsRange

\* a report for which the fallback takes a cycle off
C16_WitnessSubtracted ==
    /\ SRCalled /\ call.srData # <<>> /\ pre.srNewest # <<>>
    /\ ~isInSlack(pre, call.srData) /\ isCycleSubtracted(pre, call.srData)

\* a report within the slack whose bounds are of two cycles
C16_WitnessInSlack ==
    /\ SRTaken /\ pre.srNewest # <<>> /\ isInSlack(pre, call.srData)
    /\ TsCycles(r.srNewest.RTPTimestampExt)
         = TsCycles(pre.srNewest.RTPTimestampExt) + TsRange

\* the RTP timestamp units between the report of the last call and the newest
\* before it, by their NTP timestamps
SRStep == ToRTP(call.srData.NTPTimestamp - pre.srNewest.NTPTimestamp)

\* the report taken by the last call follows the newest before it in step:
\* d later by its NTP timestamp and d * clockRate, less than 2^31, later by its
\* 32 bit RTP timestamp (d a whole number of RTP timestamp units)
SRInStep ==
    /\ SRTaken /\ pre.srNewest # <<>>
    /\ call.srData.NTPTimestamp >= pre.srNewest.NTPTimestamp
    /\ (call.srData.NTPTimestamp - pre.srNewest.NTPTimestamp) % 8 = 0
    /\ SRStep < TsRange \div 2
    /\ call.srData.RTPTimestamp = (pre.srNewest.RTPTimestamp + SRStep) % TsRange

\* C17: of two sender reports taken one after the other, the second d later by
\* its NTP timestamp and d * clockRate (less than 2^31) later by its 32 bit RTP
\* timestamp, the extended RTP timestamps differ by d * clockRate, whatever
\* the RTP timestamp of the first: near 0, or with the second past 2^32.
C17_InStep ==
    SRInStep => r.srNewest.RTPTimestampExt = pre.srNewest.RTPTimestampExt + SRStep

\* the RTP timestamp of the second report has wrapped past 2^32
C17_Witness ==
    /\ SRInStep /\ SRStep > 0
    /\ call.srData.RTPTimestamp < pre.srNewest.RTPTimestamp
    /\ r.srNewest.RTPTimestampExt = pre.srNewest.RTPTimestampExt + SRStep

\* the RTP timestamp of the first report is near 0: below the slack
C17_WitnessNearZero ==
    /\ SRInStep /\ SRStep > 0
    /\ pre.srNewest.RTPTimestampExt < ToRTP(cReportSlack) - SRStep

\* the reports are a long time apart
C17_WitnessLong == SRInStep /\ SRStep > TsRange \div 4

\* the scripted sender reports have all been given, and the last was taken
SRScriptDone == srScript # <<>> /\ n = Len(srScript) + 1 /\ SRTaken

\* the last 3 scripted reports have the same propagation delay
SRScriptSteadyEnd ==
    \A i \in 7..Len(srScript) : srScript[i] = srScript[Len(srScript)]

\* the propagation delay of the first 6 scripted reports varies
SRScriptVarying == \E i \in 1..6 : srScript[i] # srScript[1]

\* the propagation delay is the one of the last scripted report, within 1 ms
NearLast ==
    LET last == srScript[Len(srScript)] * 1000
    IN  r.propagationDelay - last <= 1000 /\ last - r.propagationDelay <= 1000

\* C18: after 6 sender reports with a stable propagation delay of 20 ms and 3
\* reports in a row, 10 s from the first to the last, with one of 120 ms, the
\* propagationDelay of the receiver is about 120 ms, also when the first 6
\* reports have exactly the same propagation delay.
C18_PathChangeReseeds == SRScriptDone /\ SRScriptSteadyEnd => NearLast

\* so it is when the propagation delay of the first 6 reports varies
C18_Varying == SRScriptDone /\ SRScriptSteadyEnd /\ SRScriptVarying => NearLast

C18_VaryingWitness ==
    SRScriptDone /\ SRScriptSteadyEnd /\ SRScriptVarying /\ NearLast

RRCalled == kind = "receiver" /\ call.op = "GetRtcpReceptionReport"

\* the snapshot the last call read: the one of its snapshot id
RRThen == pre.snapshots[call.snapshotID]

\* the packets expected in the interval of the snapshot: from its anchor up to
\* the highest sequence number received
RRExpected == RecvHighest(pre) + 1 - RRThen.extStartSN

\* the packets lost in the interval of the snapshot, 0 when below 0
RRLost ==
    LET lost == pre.packetsLost - RRThen.packetsLost IN IF lost < 0 THEN 0 ELSE lost

\* clamp(floor(256 * lost / expected), 0, 255)
Clamped(lost, expected) ==
    LET f == (256 * lost) \div expected
    IN  IF f < 0 THEN 0 ELSE IF f > 255 THEN 255 ELSE f

Max(a, b) == IF a > b THEN a ELSE b

C19_BelowExpected ==
    call.op = "FractionLost" /\ call.packetsLost < call.packetsExpected
      => ret = Max(Clamped(call.packetsLost, call.packetsExpected), call.proxyFracLost)

\* the fraction lost of the reports of a receiver
C19_Emitted ==
    RRCalled /\ ret # <<>>
      => ret.FractionLost = Max(Clamped(RRLost, RRExpected), call.proxyFracLost)

\* in the interval of a report fewer packets are lost than expected
C19_LostBelowExpected == RRCalled /\ ret # <<>> => RRLost < RRExpected

\* a report with a loss, and no proxied fraction above it
C19_EmittedWitness ==
    RRCalled /\ ret # <<>> /\ RRLost > 0 /\ call.proxyFracLost = 0
       /\ ret.FractionLost = Clamped(RRLost, RRExpected)

\* C20: every reception report of GetRtcpReceptionReport carries in
\* LastSequenceNumber the low 32 bits of the extended highest sequence number
\* received so far, and in TotalLost the smaller of packetsLost and 2^24 - 1.
C20_LastSequenceNumber ==
    RRCalled /\ ret # <<>>
      => /\ ret.LastSequenceNumber = U32(RecvHighest(pre))
         /\ ret.TotalLost = IF ULt(cTotalLostMax, pre.packetsLost) THEN cTotalLostMax
                             ELSE pre.packetsLost

\* what the reports carry: the sequence number after the highest
C20_NextSequenceNumber ==
    RRCalled /\ ret # <<>>
      => /\ ret.LastSequenceNumber = U32(RecvHighest(pre) + 1)
         /\ ret.TotalLost = IF ULt(cTotalLostMax, pre.packetsLost) THEN cTotalLostMax
                             ELSE pre.packetsLost

\* a call of UpdateFromReceiverReport on a sender
SenderRRCalled == kind = "sender" /\ call.op = "UpdateFromReceiverReport"

\* the last sequence number of the report of the call, extended
RRExtSN ==
    extendLastSequenceNumber(pre, call.rr) + (pre.extStartSN - (pre.extStartSN % SnRange))

\* the report of the call is before the start of the stream, behind the
\* highest sequence number of the reports before it
RRBelowStart == ULt(RRExtSN, pre.extStartSN)
RRBehind == ULt(extendLastSequenceNumber(pre, call.rr), pre.extHighestSNFromRR)

\* what the reports have left on the sender x
RRState(x) ==
    [extHighestSNFromRR |-> x.extHighestSNFromRR,
     packetsLostFromRR |-> x.packetsLostFromRR,
     rtt |-> x.rtt, maxRtt |-> x.maxRtt, jitterFromRR |-> x.jitterFromRR,
     lastRR |-> x.lastRR, lastRRTime |-> x.lastRRTime,
     snapshots |-> x.snapshots, senderSnapshots |-> x.senderSnapshots]

\* C21: UpdateFromReceiverReport rejects a report whose extended last sequence
\* number is below extStartSN or below the stored extHighestSNFromRR: it
\* returns (0, false) and leaves extHighestSNFromRR, packetsLostFromRR, rtt,
\* maxRtt, jitterFromRR, lastRR, lastRRTime and every snapshot as they were;
\* extHighestSNFromRR never decreases.
C21_OutOfOrderRejected ==
    /\ SenderRRCalled /\ (RRBelowStart \/ RRBehind)
          => ret = [rtt |-> 0, isRttChanged |-> FALSE] /\ RRState(s) = RRState(pre)
    /\ kind = "sender" => ~ULt(s.extHighestSNFromRR, pre.extHighestSNFromRR)

\* a running sender is given a report that is at or after the start of the
\* stream and behind the report before it
C21_Witness ==
    /\ SenderRRCalled /\ pre.initialized /\ pre.endTime = 0
    /\ RRBehind /\ ~RRBelowStart

\* a running sender is given a report that is before the start of the stream
\* and not behind the report before it
C21_WitnessBelowStart ==
    /\ SenderRRCalled /\ pre.initialized /\ pre.endTime = 0
    /\ RRBelowStart /\ ~RRBehind

\* the report of the call is taken
RRTaken ==
    /\ SenderRRCalled /\ pre.initialized /\ pre.endTime = 0
    /\ ~RRBelowStart /\ ~RRBehind

\* the cumulative loss of the report of the call, extended
RRExtLost ==
    IF Wrapped32(call.rr.TotalLost, pre.lastRR.TotalLost)
    THEN Cycles32(pre.packetsLostFromRR) + call.rr.TotalLost + 2^16 * 2^16
    ELSE Cycles32(pre.packetsLostFromRR) + call.rr.TotalLost

\* the report of the call is at or after the last one the sender snapshot i
\* has taken, and no more than 2^15 after it
RRInInterval(i) ==
    /\ RRExtSN - pre.senderSnapshots[i].extLastRRSN >= 0
    /\ RRExtSN - pre.senderSnapshots[i].extLastRRSN <= 2^15

\* C22: a receiver report taken by a sender that has generated no sender
\* report (srNewest unset) leaves rtt at 0 and returns (0, false), and still
\* sets extHighestSNFromRR, packetsLostFromRR, jitterFromRR, lastRR, lastRRTime
\* and, in each sender snapshot, the interval stats and extLastRRSN.
C22_NoSenderReportYet ==
    RRTaken /\ pre.srNewest = <<>>
      => /\ ret = [rtt |-> 0, isRttChanged |-> FALSE]
         /\ pre.rtt = 0 /\ s.rtt = 0
         /\ s.extHighestSNFromRR = extendLastSequenceNumber(pre, call.rr)
         /\ s.packetsLostFromRR = RRExtLost
         /\ s.jitterFromRR = call.rr.Jitter
         /\ s.lastRR = call.rr
         /\ s.lastRRTime = clock
         /\ \A i \in DOMAIN pre.senderSnapshots :
              RRInInterval(i)
                => /\ s.senderSnapshots[i].extLastRRSN = RRExtSN
                   /\ s.senderSnapshots[i].intervalStats =
                        aggregate(pre.senderSnapshots[i].intervalStats,
                                  getIntervalStats(pre.snInfos,
                                      pre.senderSnapshots[i].extLastRRSN + 1,
                                      RRExtSN + 1, pre.extHighestSN))

\* the first report is taken before any sender report, and a sender snapshot
\* takes the packets of its interval from it
C22_Witness ==
    /\ RRTaken /\ pre.srNewest = <<>> /\ pre.lastRRTime = 0
    /\ call.rr.Jitter > 0 /\ call.rr.TotalLost > 0
    /\ \E i \in DOMAIN pre.senderSnapshots :
         /\ RRInInterval(i)
         /\ s.senderSnapshots[i].extLastRRSN > pre.senderSnapshots[i].extLastRRSN
         /\ s.senderSnapshots[i].intervalStats.packets > 0

\* a call of GetRtcpSenderReport on a running sender with the report of a
\* publisher
SenderSRCalled ==
    /\ kind = "sender" /\ call.op = "GetRtcpSenderReport"
    /\ pre.initialized /\ call.publisherSRData # <<>>

\* the extended RTP timestamp computed by the call
SRComputedExt ==
    senderReportRTPExt(call.publisherSRData, call.tsOffset, call.passThrough, clock)

\* the computed timestamp is behind the one of the last report emitted
SRBehindNewest ==
    pre.srNewest # <<>> /\ ULt(SRComputedExt, pre.srNewest.RTPTimestampExt)

\* C23: GetRtcpSenderReport returns nil and leaves srNewest and srFirst as
\* they were when the extended RTP timestamp it computes is below that of
\* srNewest; a report it emits carries the timestamp it computes and records
\* it in srNewest, and the extended RTP timestamp of srNewest never decreases.
C23_SenderReportsInOrder ==
    /\ SenderSRCalled /\ SRBehindNewest
          => ret = <<>> /\ s.srNewest = pre.srNewest /\ s.srFirst = pre.srFirst
    /\ SenderSRCalled /\ ret # <<>>
          => /\ s.srNewest.RTPTimestampExt = SRComputedExt
             /\ ret.RTPTime = SRComputedExt % TsRange
    /\ kind = "sender" /\ s.srNewest # pre.srNewest
          => /\ SenderSRCalled /\ ret # <<>>
             /\ pre.srNewest # <<>>
                   => ~ULt(s.srNewest.RTPTimestampExt, pre.srNewest.RTPTimestampExt)

\* a report is passed through after one was generated with a later timestamp
C23_Witness ==
    /\ SenderSRCalled /\ SRBehindNewest
    /\ call.passThrough /\ ~call2.passThrough /\ call2.op = "GetRtcpSenderReport"

\* a report is emitted after one with an earlier timestamp and another offset
C23_WitnessEmitted ==
    /\ SenderSRCalled /\ ret # <<>> /\ pre.srNewest # <<>>
    /\ call2.op = "GetRtcpSenderReport" /\ call2.tsOffset # call.tsOffset
    /\ s.srNewest.RTPTimestampExt > pre.srNewest.RTPTimestampExt

\* a sender report is emitted
SREmitted == SenderSRCalled /\ ret # <<>>

\* the call before the last was an Update of a running sender
SendUpdatedBefore == kind = "sender" /\ call2.op = "Update" /\ pre2.initialized

\* C24: in every sender report emitted PacketCount is, modulo 2^32, the
\* number of the Update calls of the sender that were not ignored, and
\* OctetCount the sum of hdrSize + payloadSize + paddingSize over those calls.
C24_Counts ==
    SREmitted => /\ ret.PacketCount = U32(sent.packets)
                 /\ ret.OctetCount = U32(sent.octets)

\* a report is emitted after a packet that lowered the start of the stream
C24_Witness ==
    /\ SREmitted /\ SendUpdatedBefore
    /\ call2.p.payloadSize > 0 /\ ULt(call2.p.extSequenceNumber, pre2.extStartSN)
    /\ sent.packets = 2

\* a report is emitted after a duplicate, after a packet that came late,
\* after a padding only packet, after a packet that was ignored, after a
\* packet that left a gap
C24_WitnessDuplicate ==
    SREmitted /\ SendUpdatedBefore /\ pre.packetsDuplicate > pre2.packetsDuplicate

C24_WitnessPadding ==
    SREmitted /\ SendUpdatedBefore /\ pre.packetsPadding > pre2.packetsPadding

C24_WitnessIgnored ==
    SREmitted /\ SendUpdatedBefore /\ SendIgnored(pre2, call2.p)

C24_WitnessGap ==
    SREmitted /\ SendUpdatedBefore /\ pre.extHighestSN > pre2.extHighestSN + 1

\* a sender report is given to a receiver that has had its first packet
SRAfterFirstPacket ==
    kind = "receiver" /\ call.op = "SetRtcpSenderReportData" /\ pre.initialized

\* C25: the sender reports a receiver is given after its first media packet
\* are taken or dropped, and those taken get their extended RTP timestamp, as
\* they are when no media packet comes between them: alone is the receiver
\* given the same first packet and the same reports, and no other packet.
C25_MediaDoesNotMatter ==
    SRAfterFirstPacket
      => /\ ret = alone.ok
         /\ ret => r.srNewest.RTPTimestampExt = alone.r.srNewest.RTPTimestampExt

\* a report is taken after another, with a media packet handled in between
C25_Witness ==
    /\ SRAfterFirstPacket /\ ret
    /\ call2.op = "Update" /\ ~ret2.IsNotHandled
    /\ pre2.srNewest # <<>>
    /\ r.timestamp # alone.r.timestamp

\* a report is dropped after a media packet was handled
C25_WitnessDropped ==
    /\ SRAfterFirstPacket /\ ~ret /\ call.srData # <<>>
    /\ call2.op = "Update" /\ ~ret2.IsNotHandled
    /\ r.timestamp # alone.r.timestamp

\* a call of DeltaInfoSender, and one that reads its sender snapshot
DeltaCalled == kind = "sender" /\ call.op = "DeltaInfoSender"
DeltaRead == DeltaCalled /\ pre.initialized /\ pre.lastRRTime # 0

\* the sender snapshot a call of DeltaInfoSender reads: the one in the slot,
\* or the one of the start of the stream if the slot is not valid
DeltaThen(x, id) ==
    IF x.senderSnapshots[id].isValid THEN x.senderSnapshots[id]
    ELSE initSenderSnapshot(x.startTime, x.extStartSN)

\* the call before the last read the sender snapshot a report is now taken in
ReportAfterDelta ==
    /\ RRTaken /\ call2.op = "DeltaInfoSender"
    /\ pre2.initialized /\ pre2.lastRRTime # 0
    /\ RRInInterval(call2.senderSnapshotID)

\* C26: DeltaInfoSender(id) leaves every sender snapshot other than the one
\* it reads, and the rest of the sender, as they were; in the snapshot read
\* extLastRRSN keeps its value, intervalStats is cleared and extStartSN
\* becomes extLastRRSN + 1.  The report taken after the read counts the
\* packets from the one after the last report before the read: none is
\* skipped and none counted twice.
C26_ReadResetsOneSnapshot ==
    /\ DeltaCalled
          => /\ s = [pre EXCEPT !.senderSnapshots = s.senderSnapshots]
             /\ \A j \in DOMAIN pre.senderSnapshots :
                  j # call.senderSnapshotID \/ ~DeltaRead
                    => s.senderSnapshots[j] = pre.senderSnapshots[j]
    /\ DeltaRead
          => LET then == DeltaThen(pre, call.senderSnapshotID)
                 now == s.senderSnapshots[call.senderSnapshotID]
             IN  /\ now.isValid
                 /\ now.extLastRRSN = then.extLastRRSN
                 /\ now.intervalStats = intervalStatsZero
                 /\ now.extStartSN = then.extLastRRSN + 1
    /\ ReportAfterDelta
          => LET id == call2.senderSnapshotID
             IN  s.senderSnapshots[id].intervalStats =
                   getIntervalStats(pre.snInfos, DeltaThen(pre2, id).extLastRRSN + 1,
                                    RRExtSN + 1, pre.extHighestSN)

\* a sender snapshot that has taken packets is read while another has taken
\* packets too, and a delta is returned
C26_Witness ==
    /\ DeltaRead /\ ret # <<>>
    /\ pre.senderSnapshots[call.senderSnapshotID].intervalStats.packets > 0
    /\ \E j \in DOMAIN pre.senderSnapshots :
         /\ j # call.senderSnapshotID
         /\ pre.senderSnapshots[j].intervalStats.packets > 0

\* a report that covers packets sent since the last one is taken after a
\* read that returned a delta
C26_WitnessNextInterval ==
    /\ ReportAfterDelta /\ ret2 # <<>>
    /\ s.senderSnapshots[call2.senderSnapshotID].intervalStats.packets > 0

\* a sender report is taken by a receiver that has taken one before
SRAfterFirst ==
    /\ kind = "receiver" /\ call.op = "SetRtcpSenderReportData" /\ ret = TRUE
    /\ pre.srFirst # <<>>

\* the propagation delay of the report of the call, in microseconds, and how
\* far it is above the estimate
SRDelay == (call.srData.At - call.srData.NTPTimestamp) * 1000
SRDelta == SRDelay - pre.propagationDelay

\* the report of the call is suspected of a change of path
SRSuspect ==
    /\ SRDelta > cPropagationDelayDeltaThresholdMin
    /\ pre.longTermDeltaPropagationDelay > 0
    /\ SRDelta > cPropagationDelayDeltaThresholdMaxFactor
                    * pre.longTermDeltaPropagationDelay

\* the tracking of a change of path of the receiver x is reset
TrackingReset(x) ==
    /\ x.propagationDelayDeltaHighCount = 0
    /\ x.propagationDelayDeltaHighStartTime = 0
    /\ x.propagationDelaySpike = 0

\* the estimate has moved towards the delay of the report: by 0.9 of the
\* way when the delay is not above it, by 0.1 of the way when it is
SRAdapted ==
    r.propagationDelay =
        pre.propagationDelay
          + Scaled(IF SRDelay > pre.propagationDelay THEN cPropagationDelayRiseFactor
                                                     ELSE cPropagationDelayFallFactor,
                   10, SRDelta)

\* C27: on every sender report taken after the first that is not suspected
\* of a change of path, the receiver resets the tracking of a change of path
\* and moves propagationDelay towards the delay of the report, by 0.9 of the
\* difference when the delay is not above it and by 0.1 when it is.
C27_AdaptsUnlessSuspect ==
    SRAfterFirst /\ ~SRSuspect => TrackingReset(r) /\ SRAdapted

\* what holds in its place: the estimate moves when the delay is no more
\* than cPropagationDelayDeltaThresholdMin above it, and stays when it is
\* more above it and not suspected
C27_AdaptsToSmallChange ==
    SRAfterFirst /\ ~SRSuspect
      => /\ TrackingReset(r)
         /\ IF SRDelta > cPropagationDelayDeltaThresholdMin
            THEN r.propagationDelay = pre.propagationDelay
            ELSE SRAdapted

\* the estimate rises, and falls
C27_WitnessRise ==
    SRAfterFirst /\ ~SRSuspect /\ r.propagationDelay > pre.propagationDelay
C27_WitnessFall ==
    SRAfterFirst /\ ~SRSuspect /\ r.propagationDelay < pre.propagationDelay

\* the run of suspected reports before the call is at least 1 report long and
\* began cPropagationDelayDeltaHighResetWait or longer before the call
SRRunBefore ==
    /\ pre.propagationDelayDeltaHighCount + 1
         >= cPropagationDelayDeltaHighResetNumReports
    /\ pre.propagationDelayDeltaHighStartTime # 0
    /\ call.srData.At - pre.propagationDelayDeltaHighStartTime
         >= cPropagationDelayDeltaHighResetWait

\* the spike the run of suspected reports has come to with the report of the
\* call
SRSpike ==
    IF pre.propagationDelaySpike = 0 THEN SRDelay
    ELSE pre.propagationDelaySpike
           + Scaled(cPropagationDelaySpikeAdaptationFactor, 10,
                    SRDelay - pre.propagationDelaySpike)

\* the report of the call made the spike the estimate
SRCommitted ==
    /\ SRAfterFirst /\ SRSuspect
    /\ r.propagationDelay # pre.propagationDelay

\* C28: propagationDelay is replaced by propagationDelaySpike only on a
\* sender report that is at least the 2nd of an uninterrupted run of
\* suspected reports and comes 10 s or more after the first of the run; a
\* report taken that is not suspected resets the run; after the spike
\* replaced the estimate the run and longTermDeltaPropagationDelay are reset.
C28_CommitResetsAll ==
    /\ SRCommitted
         => /\ SRRunBefore
            /\ r.propagationDelay = SRSpike
            /\ TrackingReset(r)
            /\ r.longTermDeltaPropagationDelay = 0
    /\ SRTaken /\ ~SRSuspect => TrackingReset(r)

\* what holds in its place: after the spike replaced the estimate
\* longTermDeltaPropagationDelay is the rise of the report when that is
\* below cPropagationDelayDeltaLongTermAdaptationThreshold
C28_CommitSeedsLongTerm ==
    /\ SRCommitted
         => /\ SRRunBefore
            /\ r.propagationDelay = SRSpike
            /\ TrackingReset(r)
            /\ r.longTermDeltaPropagationDelay
                 = (IF SRDelta < cPropagationDelayDeltaLongTermAdaptationThreshold
                    THEN SRDelta ELSE 0)
    /\ SRTaken /\ ~SRSuspect => TrackingReset(r)
    /\ SRAfterFirst /\ SRSuspect /\ ~SRCommitted
         => /\ ~SRRunBefore
            /\ r.propagationDelay = pre.propagationDelay
            /\ r.propagationDelaySpike = SRSpike
            /\ r.propagationDelayDeltaHighCount
                 = pre.propagationDelayDeltaHighCount + 1

\* the spike replaces the estimate on a report with a large rise, and on one
\* with a small rise
C28_WitnessLarge ==
    SRCommitted /\ SRDelta >= cPropagationDelayDeltaLongTermAdaptationThreshold
C28_WitnessSmall ==
    SRCommitted /\ SRDelta < cPropagationDelayDeltaLongTermAdaptationThreshold

\* a report that is not suspected ends a run
C28_WitnessRunEnded ==
    /\ SRAfterFirst /\ ~SRSuspect
    /\ pre.propagationDelayDeltaHighCount > 0

\* Update is given a packet below the start of a stream that has not ended
SendBelowStart ==
    /\ SendUpdated /\ pre.initialized /\ pre.endTime = 0
    /\ ULt(call.p.extSequenceNumber, pre.extStartSN)

\* and the packet has a payload: the start is lowered
SendLowered == SendBelowStart /\ call.p.payloadSize > 0

\* the packet of the call is within the ring of packet metadata
SendInRing == pre.extHighestSN - call.p.extSequenceNumber < cSnInfoSize

\* the snapshots that began at the start of the stream have moved to the
\* sequence number of the packet, a sender snapshot with the last sequence
\* number of a receiver report that is one before its start
SendSnapshotsMoved ==
    /\ \A i \in DOMAIN pre.snapshots :
         pre.snapshots[i].extStartSN = pre.extStartSN
           => s.snapshots[i].extStartSN = call.p.extSequenceNumber
    /\ \A i \in DOMAIN pre.senderSnapshots :
         pre.senderSnapshots[i].extStartSN = pre.extStartSN
           => /\ s.senderSnapshots[i].extStartSN = call.p.extSequenceNumber
              /\ s.senderSnapshots[i].extLastRRSN
                   = (IF pre.senderSnapshots[i].extLastRRSN = pre.extStartSN - 1
                      THEN call.p.extSequenceNumber - 1
                      ELSE pre.senderSnapshots[i].extLastRRSN)

\* the snapshots that began elsewhere are as they were
SendOthersUnchanged ==
    /\ \A i \in DOMAIN pre.snapshots :
         pre.snapshots[i].extStartSN # pre.extStartSN
           => s.snapshots[i] = pre.snapshots[i]
    /\ \A i \in DOMAIN pre.senderSnapshots :
         pre.senderSnapshots[i].extStartSN # pre.extStartSN
           => s.senderSnapshots[i] = pre.senderSnapshots[i]

\* x is y or the jitter after the call, and not below y; it is y for a packet
\* outside the ring, which is counted as a duplicate
SendJitterRaised(x, y) ==
    /\ x \in {y, s.jitter} /\ x >= y
    /\ ~SendInRing => x = y

\* the snapshots that began elsewhere are as they were but for the highest
\* jitter they have seen
SendOthersNotMoved ==
    /\ \A i \in DOMAIN pre.snapshots :
         pre.snapshots[i].extStartSN # pre.extStartSN
           => /\ [s.snapshots[i] EXCEPT !.maxJitter = 0]
                   = [pre.snapshots[i] EXCEPT !.maxJitter = 0]
              /\ SendJitterRaised(s.snapshots[i].maxJitter,
                                  pre.snapshots[i].maxJitter)
    /\ \A i \in DOMAIN pre.senderSnapshots :
         pre.senderSnapshots[i].extStartSN # pre.extStartSN
           => /\ [s.senderSnapshots[i] EXCEPT !.maxJitterFeed = 0]
                   = [pre.senderSnapshots[i] EXCEPT !.maxJitterFeed = 0]
              /\ SendJitterRaised(s.senderSnapshots[i].maxJitterFeed,
                                  pre.senderSnapshots[i].maxJitterFeed)

\* the packets between the new start and the old one are lost
SendLostBelowStart ==
    SendInRing
      => s.packetsLost
           = pre.packetsLost + (pre.extStartSN - call.p.extSequenceNumber - 1)

\* C29 as stated: when the Update of a sender is given a packet with a
\* payload below extStartSN, extStartSN becomes the sequence number of the
\* packet; every snapshot and sender snapshot that began at the old start
\* moves to it (extLastRRSN of a sender snapshot moves to one before it only
\* when it was one before the old start); every other snapshot is unchanged;
\* packetsLost grows by oldStart - extSN - 1 when the packet is within the
\* ring of packet metadata. A padding only packet below extStartSN changes
\* nothing.
C29_StartLoweredOthersUnchanged ==
    /\ SendLowered
         => /\ s.extStartSN = call.p.extSequenceNumber
            /\ SendSnapshotsMoved
            /\ SendOthersUnchanged
            /\ SendLostBelowStart
    /\ SendBelowStart /\ call.p.payloadSize = 0 => s = pre

\* C29: the same, the other snapshots being unchanged but for maxJitter and
\* maxJitterFeed, which a packet within the ring may raise to the jitter
\* after the packet.
C29_StartLowered ==
    /\ SendLowered
         => /\ s.extStartSN = call.p.extSequenceNumber
            /\ SendSnapshotsMoved
            /\ SendOthersNotMoved
            /\ SendLostBelowStart
    /\ SendBelowStart /\ call.p.payloadSize = 0 => s = pre

\* the start is lowered with a sender snapshot that moves and one that began
\* elsewhere
C29_Witness ==
    /\ SendLowered /\ SendInRing
    /\ \E i, j \in DOMAIN pre.senderSnapshots :
         /\ pre.senderSnapshots[i].extStartSN = pre.extStartSN
         /\ pre.senderSnapshots[j].extStartSN # pre.extStartSN

\* a generic snapshot moves
C29_WitnessGeneric ==
    /\ SendLowered
    /\ \E i \in DOMAIN pre.snapshots : pre.snapshots[i].extStartSN = pre.extStartSN

\* a sender snapshot moves and its extLastRRSN does not
C29_WitnessRRKept ==
    /\ SendLowered
    /\ \E i \in DOMAIN pre.senderSnapshots :
         /\ pre.senderSnapshots[i].extStartSN = pre.extStartSN
         /\ pre.senderSnapshots[i].extLastRRSN # pre.extStartSN - 1

\* the packet is outside the ring; the packet has no payload
C29_WitnessOutsideRing == SendLowered /\ ~SendInRing
C29_WitnessPadding == SendBelowStart /\ call.p.payloadSize = 0

\* Update is given a packet that is not ahead of the highest, and counts it
SendOutOfOrder ==
    /\ SendUpdated /\ pre.initialized /\ pre.endTime = 0
    /\ call.p.extSequenceNumber <= pre.extHighestSN
    /\ ~SendIgnored(pre, call.p)

\* the slot of the packet of the call in the ring of packet metadata, what
\* it held before the call, and what an out-of-order write puts there
SendSlot == call.p.extSequenceNumber % cSnInfoSize
SendSlotBefore == snInfoAt(pre.snInfos, SendSlot)
SendSlotWritten ==
    [pktSize |-> (call.p.hdrSize + call.p.payloadSize + call.p.paddingSize) % 2^16,
     hdrSize |-> call.p.hdrSize % 2^8,
     marker |-> call.p.marker,
     padding |-> call.p.payloadSize = 0,
     outOfOrder |-> TRUE]

\* the packets the start adjustment of the call counts as lost
SendLostByStart ==
    IF ULt(call.p.extSequenceNumber, pre.extStartSN)
    THEN pre.extStartSN - call.p.extSequenceNumber ELSE 0

\* C30: on the sender, a packet that is not ahead of extHighestSN and less
\* than cSnInfoSize behind it is a late arrival when its slot of the ring has
\* pktSize 0: packetsLost goes down by 1 (from what the start adjustment of
\* C29 made it), the slot is written with the out-of-order flag and
\* packetsDuplicate stays. It is a duplicate when the slot has another
\* pktSize: packetsDuplicate goes up by 1 and the ring stays. A packet
\* cSnInfoSize or more behind extHighestSN leaves the ring as it is.
C30_LateOrDuplicate ==
    SendOutOfOrder
      => IF ~SendInRing THEN s.snInfos = pre.snInfos
         ELSE IF SendSlotBefore.pktSize = 0
         THEN /\ s.packetsLost = pre.packetsLost + SendLostByStart - 1
              /\ s.packetsDuplicate = pre.packetsDuplicate
              /\ snInfoAt(s.snInfos, SendSlot) = SendSlotWritten
              /\ \A x \in 0..(cSnInfoSize - 1) \ {SendSlot} :
                   snInfoAt(s.snInfos, x) = snInfoAt(pre.snInfos, x)
         ELSE /\ s.packetsDuplicate = pre.packetsDuplicate + 1
              /\ s.packetsLost = pre.packetsLost + SendLostByStart
              /\ s.snInfos = pre.snInfos

\* a late arrival at or above the start of the stream
C30_Witness ==
    /\ SendOutOfOrder /\ SendInRing /\ SendSlotBefore.pktSize = 0
    /\ SendLostByStart = 0
    /\ s.packetsLost = pre.packetsLost - 1

\* a late arrival below the start, a duplicate, a packet too old for the
\* ring at or above the start
C30_WitnessBelowStart ==
    SendOutOfOrder /\ SendInRing /\ SendSlotBefore.pktSize = 0 /\ SendLostByStart > 0
C30_WitnessDuplicate ==
    SendOutOfOrder /\ SendInRing /\ SendSlotBefore.pktSize # 0
C30_WitnessTooOld ==
    /\ SendOutOfOrder /\ ~SendInRing /\ SendLostByStart = 0
    /\ SendSlotBefore.pktSize = 0
    /\ s.packetsDuplicate = pre.packetsDuplicate + 1

\* the sequence numbers the receiver reports have classified for the sender
\* snapshot x
Classified(x) ==
    x.intervalStats.packets + x.intervalStats.packetsPadding
      + x.intervalStats.packetsLost + x.intervalStats.packetsNotFound

\* C31: in every sender snapshot the packets, padding packets, lost packets
\* and packets not found of the interval stats add up to the advance of
\* extLastRRSN since the snapshot was made or last read. A receiver report
\* taken whose last sequence number is 0 to 2^15 after extLastRRSN of a
\* sender snapshot classifies each sequence number between them once and
\* sets extLastRRSN to it; one whose last sequence number is before
\* extLastRRSN or more than 2^15 after it leaves intervalStats and
\* extLastRRSN of that snapshot as they were.
C31_IntervalsAddUp ==
    /\ kind = "sender"
         => \A i \in DOMAIN s.senderSnapshots :
              Classified(s.senderSnapshots[i]) = sent.advance[i]
    /\ RRTaken
         => \A i \in DOMAIN pre.senderSnapshots :
              IF RRInInterval(i)
              THEN /\ s.senderSnapshots[i].extLastRRSN = RRExtSN
                   /\ Classified(s.senderSnapshots[i])
                        = Classified(pre.senderSnapshots[i])
                            + (RRExtSN - pre.senderSnapshots[i].extLastRRSN)
              ELSE /\ s.senderSnapshots[i].extLastRRSN
                        = pre.senderSnapshots[i].extLastRRSN
                   /\ s.senderSnapshots[i].intervalStats
                        = pre.senderSnapshots[i].intervalStats

\* a report covers a packet received and a packet lost
C31_Witness ==
    /\ RRTaken
    /\ \E i \in DOMAIN pre.senderSnapshots :
         /\ RRInInterval(i)
         /\ s.senderSnapshots[i].intervalStats.packets
              > pre.senderSnapshots[i].intervalStats.packets
         /\ s.senderSnapshots[i].intervalStats.packetsLost
              > pre.senderSnapshots[i].intervalStats.packetsLost

\* a report covers more than 2^15 sequence numbers; a report is taken by a
\* snapshot that was read after a report before
C31_WitnessSkipped ==
    /\ RRTaken
    /\ \E i \in DOMAIN pre.senderSnapshots :
         RRExtSN - pre.senderSnapshots[i].extLastRRSN > 2^15
C31_WitnessAfterRead ==
    /\ RRTaken
    /\ \E i \in DOMAIN pre.senderSnapshots :
         /\ RRInInterval(i) /\ RRExtSN > pre.senderSnapshots[i].extLastRRSN
         /\ pre.senderSnapshots[i].extStartSN > pre.extStartSN

\* a report covers sequence numbers that are not in the ring
C31_WitnessNotFound ==
    /\ RRTaken
    /\ \E i \in DOMAIN pre.senderSnapshots :
         /\ RRInInterval(i)
         /\ s.senderSnapshots[i].intervalStats.packetsNotFound > 0

\* an Update of a receiver returned IsNotHandled
RecvNotHandled == RecvUpdated /\ ret.IsNotHandled

\* the packet, byte and loss counters of the receiver x
RecvCounters(x) ==
    [packetsLost |-> x.packetsLost, packetsOutOfOrder |-> x.packetsOutOfOrder,
     packetsDuplicate |-> x.packetsDuplicate, bytesDuplicate |-> x.bytesDuplicate,
     headerBytesDuplicate |-> x.headerBytesDuplicate,
     packetsPadding |-> x.packetsPadding, bytesPadding |-> x.bytesPadding,
     headerBytesPadding |-> x.headerBytesPadding,
     bytes |-> x.bytes, headerBytes |-> x.headerBytes, frames |-> x.frames]

\* what C32 is about, but for the highest sequence number
RecvKept(x) ==
    [highestTS |-> GetExtendedHighest(x.timestamp), highestTime |-> x.highestTime,
     history |-> x.history, counters |-> RecvCounters(x)]

\* the timestamp of the packet of the call could not be extended, its
\* sequence number could
RecvTimestampUnhandled ==
    /\ pre.initialized /\ pre.endTime = 0
    /\ ~WrapAroundUpdate(pre.sequenceNumber, call.p.sequenceNumber, SnRange).res.IsUnhandled
    /\ WrapAroundRollover(pre.timestamp, call.p.timestamp,
                          getTSRolloverCount(pre, call.p.packetTime - pre.highestTime,
                                             call.p.timestamp),
                          TsRange).res.IsUnhandled

\* C32: an Update of a receiver that returns IsNotHandled leaves the highest
\* extended sequence number, the highest extended timestamp, highestTime, the
\* history bitmap and the packet, byte and loss counters as they were.
C32_NotHandledChangesNothing ==
    RecvNotHandled
      => RecvHighest(r) = RecvHighest(pre) /\ RecvKept(r) = RecvKept(pre)

\* what holds in its place: the highest sequence number may move when the
\* timestamp could not be extended
C32_UnlessTimestampUnhandled ==
    RecvNotHandled
      => /\ RecvKept(r) = RecvKept(pre)
         /\ ~RecvTimestampUnhandled => RecvHighest(r) = RecvHighest(pre)

\* the ways an Update is not handled: the stream has ended, it has not begun
\* and the packet is padding, the sequence number is unhandled, the packet
\* is old
C32_WitnessEnded == RecvNotHandled /\ pre.endTime # 0
C32_WitnessPadding == RecvNotHandled /\ pre.endTime = 0 /\ ~pre.initialized
C32_WitnessUnhandledSN ==
    /\ RecvNotHandled /\ pre.endTime = 0 /\ pre.initialized
    /\ WrapAroundUpdate(pre.sequenceNumber, call.p.sequenceNumber, SnRange).res.IsUnhandled
C32_WitnessOld ==
    /\ RecvNotHandled /\ pre.endTime = 0 /\ pre.initialized
    /\ ~RecvTimestampUnhandled
    /\ ~WrapAroundUpdate(pre.sequenceNumber, call.p.sequenceNumber, SnRange).res.IsUnhandled
C32_WitnessUnhandledTS == RecvNotHandled /\ RecvTimestampUnhandled

\* the Update of the call counted its packet as a duplicate
SendCountedDuplicate ==
    /\ SendUpdated
    /\ \/ s.packetsDuplicate > pre.packetsDuplicate
       \/ s.bytesDuplicate > pre.bytesDuplicate

\* C33: the Update of a sender counts a packet as a duplicate (packetsDuplicate,
\* bytesDuplicate) only when an earlier Update that was not ignored was given
\* its extended sequence number; the first arrival of a sequence number is not
\* counted as a duplicate, also cSnInfoSize or more behind extHighestSN or below
\* extStartSN.
C33_DuplicateWasSeen ==
    SendCountedDuplicate => call.p.extSequenceNumber \in preSeen

\* what holds in its place: so it is for the packets less than cSnInfoSize
\* behind extHighestSN; a packet further behind is counted as a duplicate
\* whether it came before or not
C33_DuplicateWasSeenInRing ==
    /\ SendCountedDuplicate /\ SendInRing => call.p.extSequenceNumber \in preSeen
    /\ SendOutOfOrder /\ ~SendInRing
         => /\ s.packetsDuplicate = pre.packetsDuplicate + 1
            /\ s.bytesDuplicate = pre.bytesDuplicate + call.p.hdrSize
                                     + call.p.payloadSize + call.p.paddingSize
    /\ SendOutOfOrder /\ SendInRing /\ call.p.extSequenceNumber \notin preSeen
         => s.packetsDuplicate = pre.packetsDuplicate

\* a duplicate in the ring; first arrivals outside the ring, at or above the
\* start of the stream and below it
C33_WitnessDuplicate == SendCountedDuplicate /\ SendInRing
C33_WitnessTooOld ==
    /\ SendCountedDuplicate /\ ~SendInRing
    /\ call.p.extSequenceNumber \notin preSeen
    /\ ~ULt(call.p.extSequenceNumber, pre.extStartSN)
C33_WitnessTooOldBelowStart ==
    /\ SendCountedDuplicate /\ ~SendInRing
    /\ call.p.extSequenceNumber \notin preSeen
    /\ ULt(call.p.extSequenceNumber, pre.extStartSN)

\* a first arrival below the start and in the ring is not a duplicate
C33_WitnessBelowStart ==
    /\ SendOutOfOrder /\ SendInRing
    /\ ULt(call.p.extSequenceNumber, pre.extStartSN)
    /\ s.packetsDuplicate = pre.packetsDuplicate

\* a call of DeltaInfoSender returned a delta
DeltaReturned == DeltaRead /\ ret # <<>>

\* the packets the receiver reports have shown lost in the sender snapshot
\* the call read, and the packets expected in its interval
DeltaLostInInterval ==
    DeltaThen(pre, call.senderSnapshotID).intervalStats.packetsLost
DeltaExpected ==
    s.senderSnapshots[call.senderSnapshotID].extStartSN
      - DeltaThen(pre, call.senderSnapshotID).extStartSN

\* C34: the PacketsLost of a delta that DeltaInfoSender returns is the number
\* of packets the receiver reports taken since the sender snapshot was last
\* read have shown lost, and at most the packets expected; it is above 0
\* when a report found a sequence number of the interval lost.
C34_LostOfReports ==
    DeltaReturned
      => ret.PacketsLost = (IF DeltaLostInInterval > DeltaExpected
                            THEN DeltaExpected ELSE DeltaLostInInterval)

\* what holds in its place: PacketsLost is 0
C34_LostIsZero == DeltaReturned => ret.PacketsLost = 0

\* a delta is returned for an interval in which the reports found a loss
C34_WitnessLoss == DeltaReturned /\ DeltaLostInInterval > 0
C34_WitnessNoLoss == DeltaReturned /\ DeltaLostInInterval = 0

\* the extended last sequence number of the receiver report taken before
\* the call
RRExtSNBefore ==
    pre.extHighestSNFromRR + (pre.extStartSN - (pre.extStartSN % SnRange))

\* the report taken before the call was more than 2^15 after the last one the
\* sender snapshot i has taken, and was skipped for it
RRSkippedBefore(i) ==
    /\ pre.lastRRTime # 0
    /\ RRExtSNBefore - pre.senderSnapshots[i].extLastRRSN > 2^15

\* the report of the call is taken and is at most 2^15 after the one before
RRSmallAdvance ==
    /\ RRTaken /\ pre.lastRRTime # 0
    /\ RRExtSN - RRExtSNBefore >= 1
    /\ RRExtSN - RRExtSNBefore <= 2^15

\* C35: a sender snapshot for which a receiver report was skipped, its
\* interval being above 2^15, takes a later report that is a small advance on
\* the report before it: the report is aggregated into the snapshot and
\* extLastRRSN moves to it.
C35_SkippedSnapshotRecovers ==
    RRSmallAdvance
      => \A i \in DOMAIN pre.senderSnapshots :
           RRSkippedBefore(i)
             => /\ s.senderSnapshots[i].extLastRRSN = RRExtSN
                /\ Classified(s.senderSnapshots[i])
                     > Classified(pre.senderSnapshots[i])

\* what holds in its place: the snapshot is skipped again, and a read of it
\* leaves it as far behind
C35_StaysSkipped ==
    /\ RRSmallAdvance
         => \A i \in DOMAIN pre.senderSnapshots :
              RRSkippedBefore(i)
                => /\ s.senderSnapshots[i].extLastRRSN
                        = pre.senderSnapshots[i].extLastRRSN
                   /\ s.senderSnapshots[i].intervalStats
                        = pre.senderSnapshots[i].intervalStats
    /\ DeltaRead
         => s.senderSnapshots[call.senderSnapshotID].extLastRRSN
              = DeltaThen(pre, call.senderSnapshotID).extLastRRSN

\* a report that is a small advance comes after one that was skipped; a
\* snapshot that was skipped is read; a report comes after the read
C35_WitnessAfterSkip ==
    RRSmallAdvance /\ \E i \in DOMAIN pre.senderSnapshots : RRSkippedBefore(i)
C35_WitnessRead == DeltaRead /\ RRSkippedBefore(call.senderSnapshotID)
C35_WitnessAfterRead ==
    /\ call2.op = "DeltaInfoSender" /\ pre2.lastRRTime # 0
    /\ RRSmallAdvance /\ RRSkippedBefore(call2.senderSnapshotID)

\* the report of the last call is not older than the newest by its NTP
\* timestamp, and its 32 bit RTP timestamp is behind that of the newest by less
\* than the slack
SRBehind ==
    /\ SRCalled /\ call.srData # <<>> /\ pre.initialized /\ pre.srNewest # <<>>
    /\ call.srData.NTPTimestamp >= pre.srNewest.NTPTimestamp
    /\ (pre.srNewest.RTPTimestamp - call.srData.RTPTimestamp) % TsRange >= 1
    /\ (pre.srNewest.RTPTimestamp - call.srData.RTPTimestamp) % TsRange
         < ToRTP(cReportSlack)

\* the lower bound of the slack window of the report of the last call is
\* below zero
SRLowerBoundWraps ==
    expectedRTPTimestampExt(pre, call.srData) - ToRTP(cReportSlack) < 0

\* C36: a sender report not older than the newest by its NTP timestamp whose
\* 32 bit RTP timestamp is behind that of the newest by less than the slack is
\* rejected and does not become the newest, also when the lower bound of the
\* slack window wraps below zero.
C36_BehindRejected ==
    SRBehind => ret = FALSE /\ r.srNewest = pre.srNewest

\* what holds in its place: the report is rejected unless its RTP timestamp
\* is behind that of the newest across zero while the newest is in the first
\* cycle; then it is taken with an extended RTP timestamp below zero, 2^64
\* less what it is behind
C36_BehindRejectedUnlessAcrossZero ==
    SRBehind
      => IF /\ call.srData.RTPTimestamp > pre.srNewest.RTPTimestamp
            /\ TsCycles(pre.srNewest.RTPTimestampExt) = 0
         THEN /\ SRLowerBoundWraps
              /\ ret = TRUE
              /\ r.srNewest.RTPTimestampExt = call.srData.RTPTimestamp - TsRange
         ELSE ret = FALSE /\ r.srNewest = pre.srNewest

\* a report behind is rejected with the lower bound wrapped, and with it not
\* wrapped; a report behind across zero is taken
C36_WitnessWrapped == SRBehind /\ SRLowerBoundWraps /\ ret = FALSE
C36_WitnessNotWrapped == SRBehind /\ ~SRLowerBoundWraps /\ ret = FALSE
C36_WitnessAcrossZero ==
    /\ SRBehind /\ ret = TRUE
    /\ call.srData.RTPTimestamp > pre.srNewest.RTPTimestamp

\* an operation of the service has been called, and the permission check it
\* makes for the room of the request
DispatchCalled == kind = "dispatch" /\ dispatch.call # NoCall
DispatchPermission ==
    EnsureAdminPermission(dispatch.call.ctx, dispatch.call.req.Room)

\* C38: CreateDispatch, DeleteDispatch and ListDispatch forward the request
\* to the internal client only when EnsureAdminPermission succeeded for the
\* room of the request, as one call of the operation's name on the topic of
\* the room; when the check fails the client receives no call and the
\* operation returns a nil result and an authorization error.
C38_ForwardedOnlyIfAdmin ==
    DispatchCalled
      => IF DispatchPermission = "nil"
         THEN /\ dispatch.client
                   = Append(dispatch.before,
                            [op |-> dispatch.call.op,
                             topic |-> RoomTopic(dispatch.call.ctx,
                                                 dispatch.call.req.Room),
                             req |-> dispatch.call.req])
              /\ dispatch.err \in {"nil", "rpc"}
         ELSE /\ dispatch.client = dispatch.before
              /\ dispatch.result = "nil"
              /\ dispatch.err = twirpAuthError(DispatchPermission)

\* an operation is denied after one that was forwarded; an operation is
\* forwarded after another of the three; an admin of one room is denied a
\* request for the other
C38_Witness ==
    /\ DispatchCalled /\ DispatchPermission # "nil"
    /\ dispatch.client # <<>>
C38_WitnessForwarded ==
    /\ DispatchCalled /\ DispatchPermission = "nil" /\ dispatch.err = "nil"
    /\ \E op \in {"CreateDispatch", "DeleteDispatch", "ListDispatch"} :
         dispatch.call.op = op /\ dispatch.before # <<>> /\ dispatch.before[1].op # op
C38_WitnessOtherRoom ==
    /\ DispatchCalled /\ dispatch.call.ctx # <<>>
    /\ dispatch.call.ctx.RoomAdmin /\ dispatch.call.ctx.Room # dispatch.call.req.Room
    /\ dispatch.client = <<>>

\* the fields of the copy the claim is about
SeedClaimed == {"extStartSN", "extHighestSN", "snInfos", "lastRR", "senderSnapshots"}

\* Seed has returned, having copied
SeedDone == kind = "seed" /\ seedPc = SeedReturned /\ to.initialized

\* the states of s that existed between two of its operations, the one
\* after the operation in progress among them
SeedStates == fromStates \cup {s}

\* C37: Seed(from) running while another thread calls from.Update or
\* from.UpdateFromReceiverReport copies a state of from that existed between
\* two of its operations: extStartSN, extHighestSN, snInfos, lastRR and the
\* sender snapshots of the copy are those of one such state.
C37_SeedCopiesOneState ==
    SeedDone => \E x \in SeedStates : \A f \in SeedClaimed : to[f] = x[f]

\* what holds in its place: each field of the copy is that of some state of
\* from between two of its operations, not all of the same one
C37_SeedCopiesEachField ==
    SeedDone => \A f \in SeedClaimed : \E x \in SeedStates : to[f] = x[f]

\* the copy is a state of from; the copy has extStartSN from before an Update
\* and the ring from after it; it has the sender snapshots from after a
\* receiver report and lastRR from before it
C37_WitnessOneState ==
    /\ SeedDone /\ n = MaxFromCalls
    /\ \A f \in SeedClaimed : to[f] = s[f]
C37_WitnessUpdate ==
    /\ SeedDone /\ call.op = "Update"
    /\ to.extStartSN = pre.extStartSN /\ to.extStartSN # s.extStartSN
    /\ to.snInfos = s.snInfos /\ to.snInfos # pre.snInfos
C37_WitnessReceiverReport ==
    /\ SeedDone /\ call.op = "UpdateFromReceiverReport"
    /\ to.lastRR = pre.lastRR /\ to.lastRR # s.lastRR
    /\ to.senderSnapshots = s.senderSnapshots
    /\ to.senderSnapshots # pre.senderSnapshots

====
